---- MODULE Spec2Model ----
(***************************************************************************)
(* Document export core of siteforge: the structured-control patcher and   *)
(* the positional-cell patcher of the legacy TSSR export, the modern TSSR  *)
(* template builder, and the BOQ workbook write-back.                      *)
(*                                                                         *)
(* Text is a sequence of one-character strings, so that concatenation,     *)
(* prefixes and rstrip are computed and not assumed.                       *)
(***************************************************************************)
EXTENDS Integers, Sequences, FiniteSets, TLC

VARIABLES
    patch,      \* one control or cell under the patchers (SpecPatch)
    tssr,       \* the ProjectTSSR row: field name -> value
    project,    \* the Project row
    tpl,        \* the legacy template file: [exists, doc]
    fieldMap,   \* the field map the legacy export iterates over
    req,        \* the export request being served: [format, as_built]
    pc,         \* position of the TSSR export handler
    idx,        \* next field-map entry of the legacy loop (1-based)
    doc,        \* the working document of the export
    writes,     \* the patcher calls made so far by the legacy loop
    resp,       \* the response of the last export: [status, filename]
    xlsx,       \* the BOQ workbook file: [exists, sheets]
    catalog,    \* the boq_catalog rows
    items,      \* the project's project_boq_items rows
    out,        \* the response of the last BOQ export, until the next request
    photos,     \* the project's project_photos rows
    planned_works,          \* project_tssr.planned_works
    deviations_free_text,   \* project_tssr.deviations_free_text
    body,       \* the blocks the export appended to the document body
    app,        \* a photo list or an annotation list under its function (SpecAppendix)
    sessions    \* the export requests in flight, each with its own database session

patchVars == <<patch, app, sessions>>
inputVars == <<photos, planned_works, deviations_free_text>>
tssrVars == <<tssr, project, tpl, fieldMap, req, pc, idx, doc, writes, resp, body,
              photos, planned_works, deviations_free_text>>
boqVars == <<xlsx, catalog, items, out>>
vars == <<patch, tssr, project, tpl, fieldMap, req, pc, idx, doc, writes, resp,
          xlsx, catalog, items, out, photos, planned_works, deviations_free_text,
          body, app, sessions>>

(***************************************************************************)
(* Bounds of the enumerated inputs.                                        *)
(***************************************************************************)
MaxChildren == 2
MaxRuns == 2

SeqsUpTo(S, n) == UNION {[1..k -> S] : k \in 0..n}

RECURSIVE Concat(_)
Concat(ss) == IF ss = <<>> THEN <<>> ELSE Head(ss) \o Concat(Tail(ss))

(***************************************************************************)
(* The document tree, as far as the patchers read or write it.             *)
(*   w:t   [text, space]     space = the xml:space="preserve" attribute    *)
(*   w:r   [rPr, ts]         rPr = the run properties, ts = its w:t's      *)
(*   child of w:sdtContent   [k |-> "r", runs |-> <<run>>]                 *)
(*                           [k |-> "p", runs |-> runs of the paragraph]   *)
(*   w:sdt [pr, nested, hasContent, content]   pr = the control's w:sdtPr, *)
(*                           nested = the tag of the first tagged control  *)
(*                           nested inside it, NoTagEl when there is none  *)
(*   w:tc  [paras, other]    paras = the runs of each direct paragraph,    *)
(*                           other = the cell holds other block content    *)
(***************************************************************************)
NoRPr == [bold |-> "none", italic |-> "none", size |-> "none",
          name |-> "none", color |-> "none", other |-> "none"]

StyleA == [bold |-> "true", italic |-> "none", size |-> "22",
           name |-> "Arial", color |-> "FF0000", other |-> "underline"]

StyleB == [bold |-> "false", italic |-> "true", size |-> "none",
           name |-> "none", color |-> "none", other |-> "none"]

OldT(s) == [text |-> s, space |-> FALSE]

RunSamples ==
    { [rPr |-> StyleA, ts |-> <<>>],
      [rPr |-> NoRPr,  ts |-> <<OldT(<<"a">>)>>],
      [rPr |-> StyleB, ts |-> <<OldT(<<"a">>), OldT(<<"b">>)>>] }

ParaSamples == SeqsUpTo(RunSamples, MaxRuns)

ChildSamples ==
    {[k |-> "r", runs |-> <<r>>] : r \in RunSamples}
        \cup {[k |-> "p", runs |-> p] : p \in ParaSamples}

\* a control without a w:tag element of its own
NoTagEl == "<no tag element>"

PrSamples ==
    { [tag |-> "SiteName", alias |-> "Site Name", kind |-> "text",
       options |-> <<>>],
      [tag |-> "VeiviserAvailable", alias |-> "Veiviser", kind |-> "combobox",
       options |-> <<"Choose an item.", "Yes", "No">>],
      [tag |-> "TSSRAligned", alias |-> "Aligned", kind |-> "dropdown",
       options |-> <<"Choose an item.", "Yes", "No">>] }

SdtSamples ==
    {[pr |-> pr, nested |-> NoTagEl, hasContent |-> TRUE, content |-> c] :
        pr \in PrSamples, c \in SeqsUpTo(ChildSamples, MaxChildren)}
      \cup {[pr |-> pr, nested |-> NoTagEl, hasContent |-> FALSE, content |-> <<>>] :
                pr \in PrSamples}

CellSamples ==
    {[paras |-> ps, other |-> o] :
        ps \in SeqsUpTo(ParaSamples, MaxChildren), o \in BOOLEAN}

ValueSamples == { <<>>, <<"v">> }

(***************************************************************************)
(* Reading a tree back.                                                    *)
(***************************************************************************)
RunText(run) == Concat([i \in DOMAIN run.ts |-> run.ts[i].text])

RunsText(runs) == Concat([i \in DOMAIN runs |-> RunText(runs[i])])

\* the concatenation of every text element inside the control's content
VisibleText(sdt) ==
    Concat([i \in DOMAIN sdt.content |-> RunsText(sdt.content[i].runs)])

RECURSIVE SumLen(_)
SumLen(ss) == IF ss = <<>> THEN 0 ELSE Len(Head(ss)) + SumLen(Tail(ss))

\* the number of runs inside the control's content
RunCount(sdt) == SumLen([i \in DOMAIN sdt.content |-> sdt.content[i].runs])

\* every run of the content, in document order
AllRuns(sdt) == Concat([i \in DOMAIN sdt.content |-> sdt.content[i].runs])

CellText(cell) == Concat([i \in DOMAIN cell.paras |-> RunsText(cell.paras[i])])

CellRunCount(cell) == SumLen(cell.paras)

(***************************************************************************)
(* _set_sdt_value                                                          *)
(***************************************************************************)
RECURSIVE KeepIdx(_, _, _)
\* the subsequence of seq at the indices of keep, from index i on
KeepIdx(seq, keep, i) ==
    IF i > Len(seq) THEN <<>>
    ELSE (IF i \in keep THEN <<seq[i]>> ELSE <<>>) \o KeepIdx(seq, keep, i + 1)

Min(S) == CHOOSE x \in S : \A y \in S : x <= y

\* a patch that adds the value after the text the first w:t already holds
SetRunTextAppend(run, value) ==
    IF run.ts = <<>>
      THEN [run EXCEPT !.ts = <<[text |-> value, space |-> TRUE]>>]
      ELSE [run EXCEPT !.ts[1] = [text |-> @.text \o value, space |-> TRUE]]

\* t_el = run.find(w:t), created when absent; t_el.text = value; xml:space set
SetRunText(run, value) ==
    IF run.ts = <<>>
      THEN [run EXCEPT !.ts = <<[text |-> value, space |-> TRUE]>>]
      ELSE [run EXCEPT !.ts[1] = [text |-> value, space |-> TRUE]]

DirectRuns(content) == {i \in DOMAIN content : content[i].k = "r"}

Paragraphs(content) == {i \in DOMAIN content : content[i].k = "p"}

\* Case 1: the first direct run survives, the other direct runs are removed
SetDirect(content, value) ==
    LET first == Min(DirectRuns(content))
        kept  == (DOMAIN content \ DirectRuns(content)) \cup {first}
        set   == [content EXCEPT
                    ![first] = [k |-> "r",
                                runs |-> <<SetRunText(content[first].runs[1], value)>>]]
    IN  KeepIdx(set, kept, 1)

\* Case 2: the first paragraph keeps its first run, or gets a new one
SetInParagraph(content, value) ==
    LET p    == Min(Paragraphs(content))
        runs == content[p].runs
    IN  [content EXCEPT
           ![p] = [k |-> "p",
                   runs |-> IF runs # <<>>
                              THEN <<SetRunText(runs[1], value)>>
                              ELSE <<[rPr |-> NoRPr,
                                      ts |-> <<[text |-> value, space |-> TRUE]>>]>>]]

SetSdtValue(sdt, value) ==
    IF ~sdt.hasContent THEN sdt
    ELSE IF DirectRuns(sdt.content) # {}
      THEN [sdt EXCEPT !.content = SetDirect(sdt.content, value)]
    ELSE IF Paragraphs(sdt.content) # {}
      THEN [sdt EXCEPT !.content = SetInParagraph(sdt.content, value)]
    ELSE sdt

(***************************************************************************)
(* _set_plain_cell, on the cell it is handed (the range check is the       *)
(* caller's part, see SetPlainCell below).                                 *)
(***************************************************************************)
\* the font properties the code snapshots; anything else of the run is lost
FontProps(run) == [NoRPr EXCEPT !.bold = run.rPr.bold, !.italic = run.rPr.italic,
                                !.size = run.rPr.size, !.name = run.rPr.name,
                                !.color = run.rPr.color]

\* run.text = value: no w:t is made for an empty string
NewRunTs(value) == IF value = <<>> THEN <<>> ELSE <<[text |-> value, space |-> FALSE]>>

PatchCell(cell, value) ==
    IF cell.paras # <<>> /\ cell.paras[1] # <<>>
      THEN [cell EXCEPT
              !.paras = [i \in DOMAIN cell.paras |->
                           IF i = 1
                             THEN <<[rPr |-> FontProps(cell.paras[1][1]),
                                     ts |-> NewRunTs(value)]>>
                             ELSE <<>>]]
      ELSE [paras |-> <<<<[rPr |-> NoRPr, ts |-> NewRunTs(value)]>>>>,
            other |-> FALSE]

(***************************************************************************)
(* Field values of the TSSR record. A value is a string, a boolean or      *)
(* None; s is what str() gives.                                            *)
(***************************************************************************)
StrV(s) == [ty |-> "str", s |-> s]
BoolV(b) == [ty |-> "bool", s |-> IF b THEN <<"True">> ELSE <<"False">>]
NoneV == [ty |-> "none", s |-> <<"None">>]

\* Python truthiness
Truthy(v) ==
    CASE v.ty = "str"  -> v.s # <<>>
      [] v.ty = "bool" -> v.s = <<"True">>
      [] OTHER         -> FALSE

\* getattr(tssr, field, default)
GetAttr(rec, field, default) == IF field \in DOMAIN rec THEN rec[field] ELSE default

TssrBase ==
    [f \in {"site_name", "site_id", "site_type", "site_owner_offer",
            "montasjeunderlag", "sart", "veiviser", "rfsr_rnp",
            "guideline_version", "customer", "site_owner",
            "veiviser_comments", "iloq_required", "iloq_details",
            "tssr_alignment", "tssr_alignment_comments", "site_model",
            "site_category", "access_instructions", "crane_needed"} |->
        CASE f = "site_name"      -> StrV(<<"T","o","w","e","r"," ","A">>)
          [] f = "site_id"        -> StrV(<<"S","1">>)
          [] f = "site_type"      -> StrV(<<"Coloc">>)
          [] f = "veiviser"       -> StrV(<<"Yes">>)
          [] f = "customer"       -> StrV(<<"ICE">>)
          [] f = "tssr_alignment" -> StrV(<<"No">>)
          [] f = "sart"           -> NoneV
          [] f = "iloq_required"  -> BoolV(FALSE)
          [] f = "crane_needed"   -> BoolV(FALSE)
          [] OTHER                -> StrV(<<>>)]

TssrSamples ==
    {[TssrBase EXCEPT !["iloq_required"] = BoolV(r),
                      !["iloq_details"] = StrV(d),
                      !["site_owner"] = StrV(o)] :
        r \in BOOLEAN, d \in {<<>>, <<"X">>}, o \in {<<>>, <<"B","o">>}}

(***************************************************************************)
(* TEMPLATE_MAP. An absent key is "" (tag, condition_field), the empty     *)
(* text (prefix) or 0 (table, row, col, which only plain cells read).      *)
(***************************************************************************)
TagEntry(tag, field, type) ==
    [type |-> type, tag |-> tag, db_field |-> field, condition_field |-> "",
     prefix |-> <<>>, table |-> 0, row |-> 0, col |-> 0]

CellEntry(table, row, col, field) ==
    [type |-> "plain_cell", tag |-> "", db_field |-> field, condition_field |-> "",
     prefix |-> <<>>, table |-> table, row |-> row, col |-> col]

SiteOwnerPrefix == <<"S","i","t","e"," ","O","w","n","e","r",":"," ">>

TEMPLATE_MAP ==
    << TagEntry("SiteName", "site_name", "text"),
       TagEntry("SiteID", "site_id", "text"),
       TagEntry("ContractualModel", "site_type", "combobox"),
       TagEntry("SiteOwnerOfferVersion", "site_owner_offer", "combobox"),
       TagEntry("MontasjeunderlagVesrion", "montasjeunderlag", "combobox"),
       TagEntry("SART Version", "sart", "combobox"),
       TagEntry("VeiviserAvailable", "veiviser", "combobox"),
       TagEntry("RFSRVersion", "rfsr_rnp", "combobox"),
       TagEntry("OtherSupportingDocuments", "guideline_version", "text"),
       CellEntry(0, 3, 1, "customer"),
       [CellEntry(0, 4, 0, "site_owner") EXCEPT !.prefix = SiteOwnerPrefix],
       CellEntry(0, 10, 1, "veiviser_comments"),
       [CellEntry(0, 11, 1, "iloq_details") EXCEPT !.condition_field = "iloq_required"],
       TagEntry("TSSRAligned", "tssr_alignment", "dropdown"),
       CellEntry(1, 3, 0, "tssr_alignment_comments") >>

\* Entries of the shapes the loop accepts: entries of TEMPLATE_MAP, and tag
\* entries that declare the optional keys (condition_field, prefix) the loop
\* reads for every entry.
EntrySamples ==
    { TEMPLATE_MAP[1], TEMPLATE_MAP[8], TEMPLATE_MAP[11], TEMPLATE_MAP[13],
      TEMPLATE_MAP[14], TEMPLATE_MAP[15],
      [TagEntry("SiteName", "iloq_details", "text") EXCEPT
          !.condition_field = "iloq_required"],
      [TagEntry("OtherSupportingDocuments", "iloq_details", "text") EXCEPT
          !.condition_field = "iloq_required",
          !.prefix = <<"i","L","O","Q",":"," ">>] }

MaxMapLen == 2

FieldMapSamples == {TEMPLATE_MAP} \cup (SeqsUpTo(EntrySamples, MaxMapLen) \ {<<>>})

(***************************************************************************)
(* Legacy templates: [sdts, tables]; sdts are the controls in document     *)
(* order, tables the top-level tables, each a sequence of rows of cells.   *)
(***************************************************************************)
Ctl(tag, kind, content) ==
    [pr |-> [tag |-> tag, alias |-> tag, kind |-> kind, options |-> <<>>],
     nested |-> NoTagEl, hasContent |-> TRUE, content |-> content]

OldRun == [rPr |-> StyleA, ts |-> <<OldT(<<"o","l","d">>)>>]

InPara == <<[k |-> "p", runs |-> <<OldRun>>]>>

Direct2 == <<[k |-> "r", runs |-> <<OldRun>>],
             [k |-> "r", runs |-> <<[rPr |-> NoRPr, ts |-> <<OldT(<<"2">>)>>]>>]>>

TwoParas == <<[k |-> "p", runs |-> <<OldRun>>], [k |-> "p", runs |-> <<OldRun>>]>>

OldCell == [paras |-> <<<<OldRun>>>>, other |-> FALSE]

EmptyCell == [paras |-> <<<<>>>>, other |-> FALSE]

Grid(rows, cols) == [r \in 1..rows |-> [c \in 1..cols |-> OldCell]]

TplFull ==
    [sdts |-> << Ctl("SiteName", "text", InPara),
                 Ctl("SiteID", "text", Direct2),
                 Ctl("ContractualModel", "combobox", InPara),
                 Ctl("TSSRAligned", "dropdown", InPara),
                 Ctl("", "text", InPara),
                 Ctl("TSSRAligned", "dropdown", Direct2),
                 Ctl("OtherSupportingDocuments", "text", TwoParas) >>,
     tables |-> << [Grid(12, 3) EXCEPT ![12][2] = EmptyCell], Grid(4, 1) >>]

TplSmall ==
    [sdts |-> << Ctl("SiteName", "text", InPara) >>,
     tables |-> << [Grid(5, 3) EXCEPT ![4] = <<OldCell>>] >>]

TplBare == [sdts |-> <<>>, tables |-> <<>>]

\* a control without a tag of its own around a tagged control
TplNested ==
    [sdts |-> << [Ctl(NoTagEl, "text", InPara) EXCEPT !.nested = "SiteName"],
                 Ctl("SiteName", "text", InPara) >>,
     tables |-> << Grid(1, 1) >>]

TemplateSamples == {TplFull, TplSmall, TplBare}

(***************************************************************************)
(* _export_legacy: the tag index and one iteration of the entry loop       *)
(***************************************************************************)
\* tag_el = sdt.find(".//w:tag"): the first w:tag of the control's subtree
FoundTag(sdt) == IF sdt.pr.tag # NoTagEl THEN sdt.pr.tag ELSE sdt.nested

\* sdt_by_tag.get(tag, []): the controls listed under tag, in document order
SdtsByTagAllWhenMissing(d, tag) ==
    LET hit == {i \in DOMAIN d.sdts :
                  FoundTag(d.sdts[i]) \notin {NoTagEl, ""} /\ FoundTag(d.sdts[i]) = tag}
    IN  IF hit = {} THEN DOMAIN d.sdts ELSE hit

SdtsByTag(d, tag) ==
    {i \in DOMAIN d.sdts :
        FoundTag(d.sdts[i]) \notin {NoTagEl, ""} /\ FoundTag(d.sdts[i]) = tag}

\* value after the condition check
GatedValueUngated(entry, rec) == GetAttr(rec, entry.db_field, StrV(<<>>))

GatedValue(entry, rec) ==
    IF entry.condition_field # ""
         /\ ~Truthy(GetAttr(rec, entry.condition_field, BoolV(FALSE)))
      THEN StrV(<<>>)
      ELSE GetAttr(rec, entry.db_field, StrV(<<>>))

RECURSIVE LStrip(_, _)
\* str.lstrip(chars)
LStrip(s, chars) ==
    IF s # <<>> /\ s[1] \in chars THEN LStrip(Tail(s), chars) ELSE s

RECURSIVE RStrip(_, _)
\* str.rstrip(chars)
RStrip(s, chars) ==
    IF s # <<>> /\ s[Len(s)] \in chars THEN RStrip(SubSeq(s, 1, Len(s) - 1), chars)
    ELSE s

\* text_value with the prefix left as it is for an empty value
TextValueBarePrefix(entry, value) ==
    IF Truthy(value) THEN entry.prefix \o value.s ELSE entry.prefix

\* text_value
TextValue(entry, value) ==
    IF Truthy(value) THEN entry.prefix \o value.s
    ELSE IF entry.prefix # <<>> THEN RStrip(entry.prefix, {":", " "}) \o <<":">>
    ELSE <<>>

\* the argument of _set_sdt_value: str(value) if value else ""
SdtArgument(entry, value) == IF Truthy(value) THEN value.s ELSE <<>>

TagKinds == {"text", "combobox", "dropdown"}

\* the range checks of the loop (table) and of _set_plain_cell (row, col)
CellInRangeNoColCheck(d, entry) ==
    /\ entry.table < Len(d.tables)
    /\ entry.row < Len(d.tables[entry.table + 1])

CellInRange(d, entry) ==
    /\ entry.table < Len(d.tables)
    /\ entry.row < Len(d.tables[entry.table + 1])
    /\ entry.col < Len(d.tables[entry.table + 1][entry.row + 1])

\* the document after the loop body has run for entry
ApplyEntry(d, entry, rec) ==
    LET value == GatedValue(entry, rec)
    IN  IF entry.type \in TagKinds
          THEN [d EXCEPT !.sdts =
                  [i \in DOMAIN d.sdts |->
                     IF i \in SdtsByTag(d, entry.tag)
                       THEN SetSdtValue(d.sdts[i], SdtArgument(entry, value))
                       ELSE d.sdts[i]]]
        ELSE IF entry.type = "plain_cell" /\ CellInRange(d, entry)
          THEN [d EXCEPT !.tables[entry.table + 1][entry.row + 1][entry.col + 1] =
                  PatchCell(@, TextValue(entry, value))]
        ELSE d

\* the patcher calls the loop body makes for entry number n
CallsOf(d, entry, rec, n) ==
    LET value == GatedValue(entry, rec)
    IN  IF entry.type \in TagKinds
          THEN KeepIdx([i \in DOMAIN d.sdts |->
                          [entry |-> n, kind |-> "sdt", at |-> <<i>>,
                           value |-> SdtArgument(entry, value)]],
                       SdtsByTag(d, entry.tag), 1)
        ELSE IF entry.type = "plain_cell" /\ CellInRange(d, entry)
          THEN <<[entry |-> n, kind |-> "cell",
                  at |-> <<entry.table, entry.row, entry.col>>,
                  value |-> TextValue(entry, value)]>>
        ELSE <<>>

RECURSIVE FillAll(_, _, _)
\* the whole loop over a field map
FillAll(d, map, rec) ==
    IF map = <<>> THEN d ELSE FillAll(ApplyEntry(d, Head(map), rec), Tail(map), rec)

(***************************************************************************)
(* generate_tssr_template: the controls of the generated document          *)
(***************************************************************************)
PlaceholderStyle == [NoRPr EXCEPT !.name = "Calibri", !.size = "22",
                                  !.color = "9CA3AF", !.italic = "true"]

FilledStyle == [NoRPr EXCEPT !.name = "Calibri", !.size = "22"]

\* the text of a data value handed as default (d.get(key, ""))
DefaultText(rec, field) ==
    LET v == GetAttr(rec, field, StrV(<<>>)) IN IF Truthy(v) THEN v.s ELSE <<>>

\* add_text_sdt / add_dropdown_sdt: one paragraph with one run showing the
\* default in normal styling, or the placeholder in muted italic
NewSdt(tag, alias, kind, options, default, placeholder) ==
    [pr |-> [tag |-> tag, alias |-> alias, kind |-> kind, options |-> options],
     nested |-> NoTagEl, hasContent |-> TRUE,
     content |-> <<[k |-> "p",
                    runs |-> <<[rPr |-> IF default # <<>> THEN FilledStyle
                                                         ELSE PlaceholderStyle,
                                ts |-> <<[text |-> IF default # <<>> THEN default
                                                                    ELSE placeholder,
                                          space |-> TRUE]>>]>>]>>]

AddTextSdt(tag, alias, default, placeholder) ==
    NewSdt(tag, alias, "text", <<>>, default, placeholder)

AddDropdownSdt(tag, alias, options, default, placeholder) ==
    NewSdt(tag, alias, "combobox", options, default, placeholder)

\* add_toggle_field: the Yes/No dropdown, then the detail text control
\* filled with default_detail whatever the toggle is
AddToggleField(tag, alias, detail_tag, detail_alias, detail_placeholder, default_toggle, default_detail) ==
    << AddDropdownSdt(tag, alias, <<"Yes", "No">>, default_toggle, <<"Select...">>) >>
      \o (IF detail_tag # ""
            THEN << AddTextSdt(detail_tag, detail_alias, default_detail,
                               detail_placeholder) >>
            ELSE <<>>)

VERSION_OPTIONS == <<"No", "NA", "v01", "v02", "v03", "v04", "v05", "v06",
                     "v07", "v08", "v09", "v10">>

GenerateTssrTemplate(d) ==
    [sdts |->
        << AddTextSdt("SiteName", "Site Name", DefaultText(d, "site_name"),
                      <<"e.g., Oslo Sentrum Tower">>),
           AddTextSdt("SiteID", "Site ID", DefaultText(d, "site_id"),
                      <<"e.g., OSL-1234">>),
           AddDropdownSdt("BuildingType", "Building Type",
                      <<"Silo", "Barn", "Private House", "Factory", "Other Rooftop">>,
                      DefaultText(d, "site_model"), <<"Select building type...">>),
           AddDropdownSdt("ContractualModel", "Contractual Model",
                      <<"Not Applicable", "Private Site", "Coloc", "Greenfield">>,
                      DefaultText(d, "site_type"), <<"Select model...">>),
           AddDropdownSdt("Customer", "Customer", <<"ICE", "Telenor", "Telia">>,
                      DefaultText(d, "customer"), <<"Select customer...">>),
           AddDropdownSdt("SiteOwner", "Site Owner",
                      <<"Telia Infra", "Telenor Infra", "Norkring", "Haugaland Kraft",
                        "Lyse Fiber", "Broadnet", "Private", "Other">>,
                      DefaultText(d, "site_owner"), <<"Select owner...">>),
           AddDropdownSdt("SiteCategory", "Site Category",
                      <<"Rooftop", "Greenfield", "Barn", "Indoor", "Tower">>,
                      DefaultText(d, "site_category"), <<"Select category...">>),
           AddDropdownSdt("SiteOwnerOfferVersion", "Site Owner Offer Version",
                      VERSION_OPTIONS, DefaultText(d, "site_owner_offer"),
                      <<"Select version...">>),
           AddDropdownSdt("MontasjeunderlagVersion", "Montasjeunderlag Version",
                      VERSION_OPTIONS, DefaultText(d, "montasjeunderlag"),
                      <<"Select version...">>),
           AddDropdownSdt("SARTVersion", "SART Version", VERSION_OPTIONS,
                      DefaultText(d, "sart"), <<"Select version...">>),
           AddDropdownSdt("VeiviserAvailable", "Veiviser Available", <<"Yes", "No">>,
                      DefaultText(d, "veiviser"), <<"Select...">>),
           AddDropdownSdt("RFSRVersion", "RFSR Version", VERSION_OPTIONS,
                      DefaultText(d, "rfsr_rnp"), <<"Select version...">>),
           AddTextSdt("OtherSupportingDocuments", "Other Supporting Documents",
                      DefaultText(d, "guideline_version"),
                      <<"Guideline version, additional references...">>),
           AddTextSdt("VeiviserComments", "Veiviser Comments",
                      DefaultText(d, "veiviser_comments"),
                      <<"Access directions, key codes, contact person, parking...">>) >>
        \o AddToggleField("iLOQRequired", "iLOQ Required", "iLOQDetails",
                          "iLOQ Details", <<"Location, lock ID, access level...">>,
                          IF Truthy(GetAttr(d, "iloq_required", BoolV(FALSE)))
                            THEN <<"Yes">> ELSE <<>>,
                          DefaultText(d, "iloq_details"))
        \o << AddTextSdt("AccessInstructions", "Access Instructions",
                      DefaultText(d, "access_instructions"),
                      <<"Detailed access instructions for site visit...">>) >>
        \o AddToggleField("CraneNeeded", "Crane Needed", "", "", <<"Enter details...">>,
                          IF Truthy(GetAttr(d, "crane_needed", BoolV(FALSE)))
                            THEN <<"Yes">> ELSE <<>>,
                          <<>>)
        \o << AddDropdownSdt("TSSRAligned", "TSSR Aligned", <<"Yes", "No">>,
                      DefaultText(d, "tssr_alignment"), <<"Select...">>),
              AddTextSdt("TSSRAlignmentComments", "TSSR Alignment Comments",
                      DefaultText(d, "tssr_alignment_comments"),
                      <<"Deviations, scope changes, alignment notes...">>) >>,
     tables |-> <<>>]   \* the generated tables are never read back by the export

(***************************************************************************)
(* Filenames                                                               *)
(***************************************************************************)
Digits == <<"0", "1", "2", "3", "4", "5", "6", "7", "8", "9">>

RECURSIVE Dec(_)
Dec(n) == IF n < 10 THEN <<Digits[n + 1]>> ELSE Dec(n \div 10) \o <<Digits[(n % 10) + 1]>>

\* f"{ver:02d}" for ver >= 0
Fmt02(n) == IF n < 10 THEN <<"0">> \o Dec(n) ELSE Dec(n)

\* tssr.site_id or project.site_id or "export"
TssrSiteId(rec, proj) ==
    IF Truthy(rec["site_id"]) THEN rec["site_id"].s
    ELSE IF proj.site_id # <<>> THEN proj.site_id
    ELSE <<"e","x","p","o","r","t">>

TssrFilename(rec, proj, as_built, modern) ==
    IF as_built
      THEN TssrSiteId(rec, proj) \o <<"_TSSR_AsBuilt_v">>
              \o Fmt02(proj.as_built_tssr_version) \o <<".docx">>
      ELSE <<"TSSR_">> \o TssrSiteId(rec, proj)
              \o (IF modern THEN <<"_modern.docx">> ELSE <<".docx">>)

(***************************************************************************)
(* The blocks the assembler appends to the document body. A text is a      *)
(* sequence of fragments; an image is the file of a photo as stored, or a  *)
(* new JPEG encoding of its pixels with the shapes drawn over them.        *)
(***************************************************************************)
NoImg == [src |-> 0, enc |-> "none", draws |-> <<>>]

El(k, text, level) ==
    [k |-> k, text |-> text, level |-> level, img |-> NoImg, note |-> <<>>]

PageBreak == El("page_break", <<>>, 0)

Heading(text, level) == El("heading", text, level)

Para(text) == El("para", text, 0)

Picture(img) ==
    [k |-> "picture", text |-> <<>>, level |-> 0, img |-> img, note |-> <<>>]

\* the bytes of the stored file, as doc.add_picture(str(file_path)) embeds them
OriginalImage(photo) == [src |-> photo.id, enc |-> "file", draws |-> <<>>]

PHOTO_SECTION_ORDER ==
    <<"site_overview", "delivery_access", "hse_illustration", "cable_route",
      "power_diagram", "radio_plan_screenshot", "effekt_screenshot",
      "antenna_azimuth", "antenna_placement", "equipment_room", "site_plan",
      "structural_calc", "building_photos", "detail_photos", "other">>

\* the section sign is written "Par." and the long dash "-"
PHOTO_SECTION_LABELS ==
    [key \in {PHOTO_SECTION_ORDER[n] : n \in DOMAIN PHOTO_SECTION_ORDER} |->
        CASE key = "site_overview"         -> <<"Par. 1 - Site Overview">>
          [] key = "delivery_access"       -> <<"Par. 1.1 - Delivery & Access">>
          [] key = "hse_illustration"      -> <<"Par. 1.2 - HSE Illustration">>
          [] key = "cable_route"           -> <<"Par. 3.5 - Cable Route">>
          [] key = "power_diagram"         -> <<"Par. 3.6 - Power Diagram">>
          [] key = "radio_plan_screenshot" -> <<"Par. 4.3 - Radio Plan Screenshot">>
          [] key = "effekt_screenshot"     -> <<"Par. 4.3 - Effekt Screenshot">>
          [] key = "antenna_azimuth"       -> <<"Par. 5.1 - Antenna Azimuth">>
          [] key = "antenna_placement"     -> <<"Par. 5.2 - Antenna Placement">>
          [] key = "equipment_room"        -> <<"Par. 5.3 - Equipment Room">>
          [] key = "site_plan"             -> <<"Par. 5.4 - Site Plan">>
          [] key = "structural_calc"       -> <<"Par. 5.5 - Structural Calculation">>
          [] key = "building_photos"       -> <<"Appendix - Building Photos">>
          [] key = "detail_photos"         -> <<"Appendix - Detail Photos">>
          [] OTHER                         -> <<"Other Photos">>]

(***************************************************************************)
(* _render_annotations. An annotation is [type, points, wellformed, label, *)
(* dist, color]: points is the length of its point list, wellformed tells  *)
(* whether the points carry the x and y the drawing code reads.            *)
(***************************************************************************)
Ann(type, points, label) ==
    [type |-> type, points |-> points, wellformed |-> TRUE, label |-> label,
     dist |-> <<>>, color |-> "red"]

\* color_map.get(ann.get("color", "red"), (255, 0, 0))
ColorOf(ann) ==
    IF ann.color \in {"red", "yellow", "blue", "white", "black"} THEN ann.color
    ELSE "red"

Shape(op, ann, n) == [op |-> op, color |-> ColorOf(ann), ann |-> n]

\* the branch of the if/elif chain the annotation takes, "" for none
BranchOf(ann) ==
    IF ann.type \in {"arrow", "line", "rectangle", "circle", "measure"}
          /\ ann.points >= 2 THEN ann.type
    ELSE IF ann.type = "text" /\ ann.points >= 1 THEN "text"
    ELSE ""

\* the draw calls of the n-th annotation
DrawOps(ann, n) ==
    CASE BranchOf(ann) = "arrow"     -> <<Shape("line", ann, n), Shape("line", ann, n),
                                          Shape("line", ann, n)>>
      [] BranchOf(ann) = "line"      -> <<Shape("line", ann, n)>>
      [] BranchOf(ann) = "rectangle" -> <<Shape("rectangle", ann, n)>>
      [] BranchOf(ann) = "circle"    -> <<Shape("ellipse", ann, n)>>
      [] BranchOf(ann) = "text"      -> IF ann.label # <<>>
                                          THEN <<Shape("text", ann, n)>> ELSE <<>>
      [] BranchOf(ann) = "measure"   -> <<Shape("line", ann, n)>>
                                          \o (IF ann.dist # <<>>
                                                THEN <<Shape("text", ann, n)>> ELSE <<>>)
      [] OTHER                       -> <<>>

\* reading points[0]["x"] of a malformed point list raises
Raises(ann) == BranchOf(ann) # "" /\ ~ann.wellformed

\* the shapes of one annotation, then those of the rest of the loop
Drawn(ops, rest) == [raised |-> rest.raised, draws |-> ops \o rest.draws]

\* the loop over the annotations from the n-th on: the shapes drawn before
\* the first annotation that raises, if one does
RECURSIVE DrawAllStopAtSkipped(_, _)
DrawAllStopAtSkipped(anns, n) ==
    IF n > Len(anns) THEN [raised |-> FALSE, draws |-> <<>>]
    ELSE IF Raises(anns[n]) THEN [raised |-> TRUE, draws |-> <<>>]
    ELSE IF BranchOf(anns[n]) = "" THEN [raised |-> FALSE, draws |-> <<>>]
    ELSE Drawn(DrawOps(anns[n], n), DrawAllStopAtSkipped(anns, n + 1))

RECURSIVE DrawAll(_, _)
DrawAll(anns, n) ==
    IF n > Len(anns) THEN [raised |-> FALSE, draws |-> <<>>]
    ELSE IF Raises(anns[n]) THEN [raised |-> TRUE, draws |-> <<>>]
    ELSE Drawn(DrawOps(anns[n], n), DrawAll(anns, n + 1))

\* Image.open(image_path) succeeds on a file Pillow can decode
PillowReads(file) == file = "ok"

\* doc.add_picture(path) succeeds on a file python-docx recognises
DocxReads(file) == file = "ok"

\* img.save(buf, "JPEG", quality=90) of the image the loop drew on
Saved(photo, d) ==
    IF d.raised THEN [raised |-> TRUE, img |-> NoImg]
    ELSE [raised |-> FALSE,
          img |-> [src |-> photo.id, enc |-> "jpeg90", draws |-> d.draws]]

\* Image.open(...).convert("RGB"), the draw loop, the save
RenderAnnotations(photo, anns) ==
    IF ~PillowReads(photo.file) THEN [raised |-> TRUE, img |-> NoImg]
    ELSE Saved(photo, DrawAll(anns, 1))

(***************************************************************************)
(* _insert_photos_into_doc                                                 *)
(***************************************************************************)
\* every section outside the fixed order filed under "other"
SectionOfUnknownToOther(photo) ==
    IF photo.section \in {PHOTO_SECTION_ORDER[n] : n \in DOMAIN PHOTO_SECTION_ORDER}
      THEN photo.section ELSE "other"

\* photo.section or "other"
SectionOf(photo) == IF photo.section = "" THEN "other" ELSE photo.section

\* caption_text
CaptionText(photo) ==
    (IF photo.auto_filename # <<>> THEN photo.auto_filename
     ELSE photo.original_filename)
    \o (IF photo.caption # <<>> THEN <<" - ">> \o photo.caption ELSE <<>>)

Caption(photo) == El("caption", CaptionText(photo), 0)

\* statements that ran to their end and appended els
Ok(els) == [ok |-> TRUE, els |-> els]

\* a, then b unless an exception left a
Then(a, b) == IF ~a.ok THEN a ELSE [ok |-> b.ok, els |-> a.els \o b.els]

\* the try block around _render_annotations with its except clause, r being
\* what the rendering gave
Annotated(photo, r) ==
    IF ~r.raised THEN Ok(<<Picture(r.img), Caption(photo)>>)
    ELSE IF DocxReads(photo.file)
      THEN Ok(<<Picture(OriginalImage(photo)), Caption(photo)>>)
    ELSE [ok |-> FALSE, els |-> <<>>]

\* the loop body writing the caption also after a failed embedding
PhotoBlockCaptionAlways(photo) ==
    IF photo.file = "missing" THEN Ok(<<>>)
    ELSE IF photo.annotations # <<>>
      THEN Annotated(photo, RenderAnnotations(photo, photo.annotations))
    ELSE IF DocxReads(photo.file)
      THEN Ok(<<Picture(OriginalImage(photo)), Caption(photo)>>)
    ELSE Ok(<<Caption(photo)>>)

\* the body of "for photo in section_photos" for one photo: the blocks it
\* adds, and whether an exception leaves the loop
PhotoBlock(photo) ==
    IF photo.file = "missing" THEN Ok(<<>>)
    ELSE IF photo.annotations # <<>>
      THEN Annotated(photo, RenderAnnotations(photo, photo.annotations))
    ELSE IF DocxReads(photo.file)
      THEN Ok(<<Picture(OriginalImage(photo)), Caption(photo)>>)
    ELSE Ok(<<>>)

RECURSIVE PhotoBlocks(_)
PhotoBlocks(ps) ==
    IF ps = <<>> THEN Ok(<<>>)
    ELSE Then(PhotoBlock(Head(ps)), PhotoBlocks(Tail(ps)))

\* by_section.get(section_key): the photos of the section, in list order
BySection(ps, key) == SelectSeq(ps, LAMBDA p : SectionOf(p) = key)

\* the label of a section key, the key itself where it has none
LabelOf(key) ==
    IF key \in DOMAIN PHOTO_SECTION_LABELS THEN PHOTO_SECTION_LABELS[key] ELSE <<key>>

\* the heading of a section, then its photos
SectionBlock(ps, key) ==
    Then(Ok(<<Heading(LabelOf(key), 2)>>), PhotoBlocks(BySection(ps, key)))

\* the sections in the order of the photo list
RECURSIVE SectionsFromInputOrder(_, _)
SectionsFromInputOrder(ps, n) ==
    IF ps = <<>> THEN Ok(<<>>)
    ELSE Then(SectionBlock(ps, SectionOf(Head(ps))),
              SectionsFromInputOrder(
                  SelectSeq(ps, LAMBDA p : SectionOf(p) # SectionOf(Head(ps))), n))

\* "for section_key in PHOTO_SECTION_ORDER" from the n-th key on
RECURSIVE Sections(_, _)
Sections(ps, n) ==
    IF n > Len(PHOTO_SECTION_ORDER) THEN Ok(<<>>)
    ELSE IF BySection(ps, PHOTO_SECTION_ORDER[n]) = <<>> THEN Sections(ps, n + 1)
    ELSE Then(SectionBlock(ps, PHOTO_SECTION_ORDER[n]), Sections(ps, n + 1))

InsertPhotos(ps) ==
    Then(Ok(<<PageBreak, Heading(<<"Photo Documentation">>, 1)>>), Sections(ps, 1))

(***************************************************************************)
(* _insert_planned_works_into_doc. planned_works is [truthy, sections]:    *)
(* None and {} are falsy; a section is [title, items], an item is          *)
(* [text, manualFields, derivation], a manual field is [label, value].     *)
(***************************************************************************)
Bullet(text, note) ==
    [k |-> "bullet", text |-> text, level |-> 0, img |-> NoImg, note |-> note]

\* str.strip()
Strip(s) == RStrip(LStrip(s, {" "}), {" "})

RECURSIVE Join(_, _)
\* sep.join(parts)
Join(parts, sep) ==
    IF parts = <<>> THEN <<>>
    ELSE IF Len(parts) = 1 THEN parts[1]
    ELSE parts[1] \o sep \o Join(Tail(parts), sep)

RECURSIVE FieldParts(_)
\* parts: "label: value", or the value alone, for the fields with a value
FieldParts(fields) ==
    IF fields = <<>> THEN <<>>
    ELSE LET f   == Head(fields)
             val == Strip(f.value)
         IN  (IF val = <<>> THEN <<>>
              ELSE IF f.label # <<>> THEN << f.label \o <<": ">> \o val >>
              ELSE << val >>)
             \o FieldParts(Tail(fields))

\* the display text taken from the fields before the free text
ItemTextFieldsFirst(item) ==
    IF Join(FieldParts(item.manualFields), <<"; ">>) # <<>>
      THEN Join(FieldParts(item.manualFields), <<"; ">>)
    ELSE Strip(item.text)

\* the display text of an item
ItemText(item) ==
    IF Strip(item.text) # <<>> THEN Strip(item.text)
    ELSE Join(FieldParts(item.manualFields), <<"; ">>)

RECURSIVE ItemBlocks(_)
ItemBlocks(its) ==
    IF its = <<>> THEN <<>>
    ELSE LET item == Head(its)
         IN  (IF ItemText(item) = <<>> THEN <<>>
              ELSE << Bullet(ItemText(item),
                             IF item.derivation # <<>>
                               THEN <<"  [">> \o item.derivation \o <<"]">>
                               ELSE <<>>) >>)
             \o ItemBlocks(Tail(its))

RECURSIVE SectionBlocks(_)
SectionBlocks(secs) ==
    IF secs = <<>> THEN <<>>
    ELSE LET sec == Head(secs)
         IN  (IF sec.title = <<>> \/ sec.items = <<>> THEN <<>>
              ELSE <<Heading(sec.title, 2)>> \o ItemBlocks(sec.items))
             \o SectionBlocks(Tail(secs))

\* the heading written only when some section has content
InsertPlannedWorksWhenRendered(pw) ==
    IF ~pw.truthy \/ SectionBlocks(pw.sections) = <<>> THEN <<>>
    ELSE <<PageBreak, Heading(<<"Description of Planned Works">>, 1)>>
            \o SectionBlocks(pw.sections)

InsertPlannedWorks(pw) ==
    IF ~pw.truthy \/ pw.sections = <<>> THEN <<>>
    ELSE <<PageBreak, Heading(<<"Description of Planned Works">>, 1)>>
            \o SectionBlocks(pw.sections)

(***************************************************************************)
(* _insert_as_built_section                                                *)
(***************************************************************************)
\* date.today().strftime('%d.%m.%Y')
Today == <<"dd.mm.yyyy">>

InsertAsBuilt(deviations, as_built_photos) ==
    Then(Ok(<<PageBreak, Heading(<<"AS-BUILT DOCUMENTATION">>, 1),
              Para(<<"As-Built Date: ">> \o Today)>>
            \o (IF Truthy(deviations)
                  THEN <<Heading(<<"Deviation Notes">>, 2), Para(deviations.s)>>
                  ELSE <<>>)
            \o (IF as_built_photos # <<>>
                  THEN <<Heading(<<"As-Built Photo Documentation">>, 2)>>
                  ELSE <<>>)),
         IF as_built_photos # <<>> THEN InsertPhotos(as_built_photos) ELSE Ok(<<>>))

(***************************************************************************)
(* The photo query of export_tssr and the split by phase.                  *)
(***************************************************************************)
\* the section names in the order the database compares them
SectionCollation ==
    <<"", "antenna_azimuth", "antenna_placement", "building_photos", "cable_route",
      "delivery_access", "detail_photos", "effekt_screenshot", "equipment_room",
      "hse_illustration", "other", "power_diagram", "radio_plan_screenshot", "roof",
      "site_overview", "site_plan", "structural_calc", "unsorted">>

SectionRank(s) == CHOOSE n \in DOMAIN SectionCollation : SectionCollation[n] = s

\* ORDER BY section, sort_order
QueryBefore(p, q) ==
    \/ SectionRank(p.section) < SectionRank(q.section)
    \/ p.section = q.section /\ p.sort_order <= q.sort_order

\* .where(section != "unsorted"), and .where(phase == "planning") unless as_built
QueryRows(rows, as_built) ==
    {p \in rows : p.section # "unsorted" /\ (as_built \/ p.phase = "planning")}

\* the lists the query may return: any order that respects ORDER BY
QueryResults(rows, as_built) ==
    LET S == QueryRows(rows, as_built)
    IN  {f \in [1..Cardinality(S) -> S] :
            /\ \A a, b \in DOMAIN f : f[a] = f[b] => a = b
            /\ \A a, b \in DOMAIN f : a < b => QueryBefore(f[a], f[b])}

\* planning_photos
PlanningPhotos(all_photos) ==
    SelectSeq(all_photos, LAMBDA p : (IF p.phase = "" THEN "planning" ELSE p.phase)
                                        = "planning")

\* as_built_photos
AsBuiltPhotosAnyPhase(all_photos, as_built) ==
    IF as_built THEN all_photos ELSE <<>>

AsBuiltPhotos(all_photos, as_built) ==
    IF as_built THEN SelectSeq(all_photos, LAMBDA p : p.phase = "as_built") ELSE <<>>

(***************************************************************************)
(* The insertions of _export_legacy and _export_modern, in call order; an  *)
(* exception in one of them ends the request.                              *)
(***************************************************************************)
AssembleAsBuiltFirst(pw, plan, as_built, asb, deviations) ==
    Then(Then(IF as_built THEN InsertAsBuilt(deviations, asb) ELSE Ok(<<>>),
              Ok(InsertPlannedWorks(pw))),
         IF plan # <<>> THEN InsertPhotos(plan) ELSE Ok(<<>>))

Assemble(pw, plan, as_built, asb, deviations) ==
    Then(Then(Ok(InsertPlannedWorks(pw)),
              IF plan # <<>> THEN InsertPhotos(plan) ELSE Ok(<<>>)),
         IF as_built THEN InsertAsBuilt(deviations, asb) ELSE Ok(<<>>))

(***************************************************************************)
(* export_tssr                                                             *)
(***************************************************************************)
MaxVersion == 2

NoDoc == [sdts |-> <<>>, tables |-> <<>>]

NoResp == [status |-> "none", filename |-> <<>>, detail |-> <<>>]

\* settings.tssr_template_path, settings.catalog_excel_path
TSSR_TEMPLATE_PATH == <<"../Template TSSR_v6 19.03.2025 OneCo v1.docx">>

CATALOG_EXCEL_PATH == <<"../BoQ_v4.01 template OneCo v4.xlsm">>

\* no planned works stored
NoWorks == [truthy |-> FALSE, sections |-> <<>>]

\* an exception no handler catches becomes the framework's 500 response
Unhandled == [status |-> "500 Internal Server Error", filename |-> <<>>, detail |-> <<>>]

ProjectInit ==
    [site_id |-> <<"S","1">>, site_name |-> <<"T","o","w","e","r"," ","A">>,
     as_built_tssr_version |-> 0, as_built_boq_version |-> 0]

IdleTssr ==
    /\ tssr = TssrBase
    /\ project = ProjectInit
    /\ tpl = [exists |-> FALSE, doc |-> NoDoc]
    /\ fieldMap = TEMPLATE_MAP
    /\ req = [format |-> "legacy", as_built |-> FALSE]
    /\ pc = "idle"
    /\ idx = 1
    /\ doc = NoDoc
    /\ writes = <<>>
    /\ resp = NoResp
    /\ body = <<>>
    /\ photos = {}
    /\ planned_works = NoWorks
    /\ deviations_free_text = NoneV

\* a request may start when no export is under way
CanStart(as_built) ==
    /\ pc \in {"idle", "done", "failed"}
    /\ as_built => project.as_built_tssr_version < MaxVersion

\* export_tssr up to the dispatch, counting every request
BeginCountsEveryExport(format, as_built) ==
    /\ req' = [format |-> format, as_built |-> as_built]
    /\ project' = [project EXCEPT
                      !.as_built_tssr_version = IF @ < MaxVersion THEN @ + 1 ELSE @]
    /\ writes' = <<>>
    /\ idx' = 1

\* export_tssr up to the dispatch: the as-built counter is incremented and
\* committed before the document is made
Begin(format, as_built) ==
    /\ req' = [format |-> format, as_built |-> as_built]
    /\ project' = IF as_built
                    THEN [project EXCEPT !.as_built_tssr_version = @ + 1]
                    ELSE project
    /\ writes' = <<>>
    /\ idx' = 1

\* the insertions of _export_modern, made when there is something to insert
ModernTail(pw, plan, as_built, asb, deviations) ==
    IF pw.truthy \/ plan # <<>> \/ as_built
      THEN Assemble(pw, plan, as_built, asb, deviations)
      ELSE Ok(<<>>)

\* export_tssr with format = "modern": _export_modern as a whole
ExportModern ==
    \E as_built \in BOOLEAN :
      \E all_photos \in QueryResults(photos, as_built) :
        LET tail == ModernTail(planned_works, PlanningPhotos(all_photos), as_built,
                               AsBuiltPhotos(all_photos, as_built),
                               deviations_free_text)
        IN  /\ CanStart(as_built)
            /\ Begin("modern", as_built)
            /\ IF tail.ok
                 THEN /\ doc' = GenerateTssrTemplate(tssr)
                      /\ body' = tail.els
                      /\ pc' = "done"
                      /\ resp' = [status |-> "ok",
                                  filename |-> TssrFilename(tssr, project', as_built, TRUE),
                                  detail |-> <<>>]
                 ELSE /\ doc' = NoDoc
                      /\ body' = <<>>
                      /\ pc' = "failed"
                      /\ resp' = Unhandled
            /\ UNCHANGED <<patchVars, inputVars, tssr, tpl, fieldMap, boqVars>>

\* _export_legacy opening the template without looking for it first
LegacyLoadUnchecked ==
    \E as_built \in BOOLEAN :
        /\ CanStart(as_built)
        /\ Begin("legacy", as_built)
        /\ body' = <<>>
        /\ doc' = tpl.doc
        /\ pc' = "loop"
        /\ resp' = NoResp
        /\ UNCHANGED <<patchVars, inputVars, tssr, tpl, fieldMap, boqVars>>

\* export_tssr with any other format: _export_legacy up to the entry loop
LegacyLoad ==
    \E as_built \in BOOLEAN :
        /\ CanStart(as_built)
        /\ Begin("legacy", as_built)
        /\ body' = <<>>
        /\ IF tpl.exists
             THEN /\ doc' = tpl.doc
                  /\ pc' = "loop"
                  /\ resp' = NoResp
             ELSE /\ doc' = NoDoc
                  /\ pc' = "failed"
                  /\ resp' = [status |-> "500 TSSR template not found",
                              filename |-> <<>>,
                              detail |-> <<"TSSR template not found: ">>
                                            \o TSSR_TEMPLATE_PATH]
        /\ UNCHANGED <<patchVars, inputVars, tssr, tpl, fieldMap, boqVars>>

\* one iteration of "for entry in TEMPLATE_MAP"
LegacyEntry ==
    /\ pc = "loop"
    /\ idx <= Len(fieldMap)
    /\ doc' = ApplyEntry(doc, fieldMap[idx], tssr)
    /\ writes' = writes \o CallsOf(doc, fieldMap[idx], tssr, idx)
    /\ idx' = idx + 1
    /\ UNCHANGED <<patchVars, inputVars, body, tssr, project, tpl, fieldMap, req, pc,
                   resp, boqVars>>

\* the rest of _export_legacy: the insertions, then save and name the
\* document. all_photos is the list export_tssr queried before the dispatch;
\* nothing writes the photo rows in between.
LegacyFinish ==
    \E all_photos \in QueryResults(photos, req.as_built) :
        LET tail == Assemble(planned_works, PlanningPhotos(all_photos), req.as_built,
                             AsBuiltPhotos(all_photos, req.as_built),
                             deviations_free_text)
        IN  /\ pc = "loop"
            /\ idx > Len(fieldMap)
            /\ IF tail.ok
                 THEN /\ body' = tail.els
                      /\ pc' = "done"
                      /\ resp' = [status |-> "ok",
                                  filename |-> TssrFilename(tssr, project, req.as_built,
                                                            FALSE),
                                  detail |-> <<>>]
                 ELSE /\ body' = <<>>
                      /\ pc' = "failed"
                      /\ resp' = Unhandled
            /\ UNCHANGED <<patchVars, inputVars, tssr, project, tpl, fieldMap, req, idx,
                           doc, writes, boqVars>>

NextTssr == ExportModern \/ LegacyLoad \/ LegacyEntry \/ LegacyFinish

NoApp ==
    [fn |-> "none", photos |-> <<>>, file |-> "ok", anns |-> <<>>, works |-> NoWorks,
     done |-> FALSE, ok |-> TRUE, els |-> <<>>, img |-> NoImg]

IdleApp == app = NoApp

\* a request that has not arrived; obj is the Project object of its session
NoSession ==
    [pc |-> "idle", kind |-> "none", as_built |-> FALSE, obj |-> ProjectInit,
     filename |-> <<>>]

Requests == {1, 2}

IdleSessions == sessions = [s \in Requests |-> NoSession]

IdlePatch ==
    patch = [kind |-> "none", value |-> <<>>, pre |-> <<>>, cur |-> <<>>,
             once |-> <<>>, calls |-> 0]


(***************************************************************************)
(* The BOQ workbook. A sheet is a function from <<row, column>> to a cell  *)
(* value, over the rows and columns the import and the export touch: the   *)
(* header rows 4 and 5, two data rows, columns B to G.                     *)
(***************************************************************************)
DATA_START_ROW == 11
COL_B_PRODUCT_CODE == 1
COL_D_QUANTITY == 4
COL_F_ACT_QTY == 6
COL_G_ACT_COMMENT == 7

DATA_SHEETS == {"BoQ", "BoM Griptel", "BoM Solar"}

SKIP_PRODUCT_CODES == {<<"MATERIAL PROVIDED BY SUBCO">>}

XRows == {4, 5, DATA_START_ROW, DATA_START_ROW + 1}
XCols == 2..7

Blank == [k |-> "blank", n |-> 0, s |-> <<>>]
NumCell(n) == [k |-> "num", n |-> n, s |-> <<>>]
StrCell(s) == [k |-> "str", n |-> 0, s |-> s]

TplCell == StrCell(<<"t","p","l">>)

\* a sheet with the given product-code cells in column B of the data rows
SheetOf(b1, b2) ==
    [rc \in XRows \X XCols |->
        IF rc = <<DATA_START_ROW, COL_B_PRODUCT_CODE + 1>> THEN b1
        ELSE IF rc = <<DATA_START_ROW + 1, COL_B_PRODUCT_CODE + 1>> THEN b2
        ELSE TplCell]

XlsxA ==
    [exists |-> TRUE,
     sheets |-> [n \in {"BoQ", "BoM Griptel", "Notes"} |->
                   CASE n = "BoQ"         -> SheetOf(StrCell(<<"A">>), Blank)
                     [] n = "BoM Griptel" -> SheetOf(StrCell(<<" ","A"," ">>), Blank)
                     [] OTHER             -> SheetOf(StrCell(<<"A">>), Blank)]]

XlsxB ==
    [exists |-> TRUE,
     sheets |-> [n \in {"BoQ", "Summary"} |->
                   CASE n = "BoQ" -> SheetOf(NumCell(7),
                                             StrCell(<<"MATERIAL PROVIDED BY SUBCO">>))
                     [] OTHER     -> SheetOf(Blank, Blank)]]

XlsxMissing == [exists |-> FALSE, sheets |-> <<>>]

XlsxSamples == {XlsxA, XlsxB, XlsxMissing}

(***************************************************************************)
(* import_catalog                                                          *)
(***************************************************************************)
\* _cell_str: str(val).strip(), or None (the empty text) for an empty cell
CellStr(cell) ==
    CASE cell.k = "blank" -> <<>>
      [] cell.k = "num"   -> Dec(cell.n)
      [] OTHER            -> RStrip(LStrip(cell.s, {" "}), {" "})

\* the rows _import_sheet keeps: a product code that is not a known noise entry
ImportedRows(sheet) ==
    {r \in {rc[1] : rc \in DOMAIN sheet} :
        /\ r >= DATA_START_ROW
        /\ CellStr(sheet[<<r, COL_B_PRODUCT_CODE + 1>>]) # <<>>
        /\ CellStr(sheet[<<r, COL_B_PRODUCT_CODE + 1>>]) \notin SKIP_PRODUCT_CODES}

\* upsert by (row_index, sheet_name), for the three sheets the script reads
ImportSheets(cat, file) ==
    LET new  == UNION {{[sheet_name |-> n, row_index |-> r,
                         product_code |->
                             CellStr(file.sheets[n][<<r, COL_B_PRODUCT_CODE + 1>>])] :
                            r \in ImportedRows(file.sheets[n])} :
                          n \in DOMAIN file.sheets \cap DATA_SHEETS}
        kept == {c \in cat : ~\E d \in new : /\ d.sheet_name = c.sheet_name
                                             /\ d.row_index = c.row_index}
    IN  kept \cup new

\* the primary key of a catalog row; (row_index, sheet_name) is unique
CatId(c) == <<c.sheet_name, c.row_index>>

(***************************************************************************)
(* Project BOQ items and the item endpoints                                *)
(***************************************************************************)
MaxItems == 2

ItemIds == 1..MaxItems

QtySamples == {0, 1, 2}

CodeSamples == {<<"A">>, <<"B">>}

CustomItem ==
    [id |-> 1, catalog_item_id |-> <<>>, product_code |-> <<"Z">>, quantity |-> 2,
     is_manual_override |-> TRUE,
     actual_quantity |-> <<>>, actual_comment |-> NoneV]

FreeId(its) == Min(ItemIds \ {i.id : i \in its})

\* no response in flight; codes and removed are read off a compute response:
\* the product codes the rules produced and the entries of diff.removed
NoOut ==
    [status |-> "none", sheets |-> <<>>, vba |-> FALSE, filename |-> <<>>,
     detail |-> <<>>, as_built |-> FALSE, codes |-> {}, removed |-> {}]

\* add_boq_item
AddBoqItem ==
    \E c \in catalog, q \in QtySamples :
        /\ ~\E i \in items : i.catalog_item_id = CatId(c)
        /\ Cardinality(items) < MaxItems
        /\ items' = items \cup
              {[id |-> FreeId(items), catalog_item_id |-> CatId(c),
                product_code |-> c.product_code, quantity |-> q,
                is_manual_override |-> TRUE,
                actual_quantity |-> <<>>, actual_comment |-> NoneV]}
        /\ out = NoOut
        /\ out' = out
        /\ UNCHANGED <<patchVars, tssrVars, xlsx, catalog>>

\* update_boq_item; <<>> and NoneV stand for a field the body leaves out
UpdatedItem(i, quantity, manual, actual_quantity, actual_comment) ==
    LET a == IF quantity # <<>>
               THEN [i EXCEPT !.quantity = quantity[1], !.is_manual_override = manual]
               ELSE i
        b == IF actual_quantity # <<>> THEN [a EXCEPT !.actual_quantity = actual_quantity]
             ELSE a
    IN  IF actual_comment # NoneV THEN [b EXCEPT !.actual_comment = actual_comment] ELSE b

\* the request bodies tried: a quantity with its override flag, or one actual
UpdateBodies ==
    {[quantity |-> <<q>>, is_manual_override |-> m, actual_quantity |-> <<>>,
      actual_comment |-> NoneV] : q \in QtySamples, m \in BOOLEAN}
    \cup {[quantity |-> <<>>, is_manual_override |-> TRUE, actual_quantity |-> <<0>>,
           actual_comment |-> NoneV]}
    \cup {[quantity |-> <<>>, is_manual_override |-> TRUE, actual_quantity |-> <<>>,
           actual_comment |-> StrV(c)] : c \in {<<>>, <<"c">>}}

UpdateBoqItem ==
    \E i \in items, upd \in UpdateBodies :
        /\ items' = (items \ {i}) \cup
                       {UpdatedItem(i, upd.quantity, upd.is_manual_override,
                                    upd.actual_quantity, upd.actual_comment)}
        /\ out = NoOut
        /\ out' = out
        /\ UNCHANGED <<patchVars, tssrVars, xlsx, catalog>>

\* remove_boq_item
RemoveBoqItem ==
    \E i \in items :
        /\ items' = items \ {i}
        /\ out = NoOut
        /\ out' = out
        /\ UNCHANGED <<patchVars, tssrVars, xlsx, catalog>>

(***************************************************************************)
(* compute_and_persist. calcs is the rule engine's result, product code -> *)
(* quantity; cat and old are the two dicts keyed by product code, each     *)
(* keeping the last row the query returned for a code.                     *)
(***************************************************************************)
CalcSamples == UNION {[S -> {1, 2}] : S \in SUBSET CodeSamples}

\* catalog = {item.product_code: item for item in items}: one row per code
Resolutions(rows, codes) ==
    LET have == {k \in codes : \E r \in rows : r.product_code = k}
    IN  {f \in [have -> rows] : \A k \in have : f[k].product_code = k}

\* the item compute leaves for an existing item found under the calc's code
Upserted(existing, q, c) ==
    IF existing.is_manual_override THEN existing
    ELSE IF existing.quantity # q
      THEN [existing EXCEPT !.quantity = q, !.catalog_item_id = CatId(c)]
    ELSE IF existing.catalog_item_id = <<>>
      THEN [existing EXCEPT !.catalog_item_id = CatId(c)]
    ELSE existing

RECURSIVE WithNewItems(_, _, _, _)
\* the items created for the codes found in the catalog and not in old_items
WithNewItems(its, codes, calcs, cat) ==
    IF codes = {} THEN its
    ELSE LET k == CHOOSE x \in codes : TRUE
         IN  WithNewItems(
                 its \cup {[id |-> FreeId(its), catalog_item_id |-> CatId(cat[k]),
                            product_code |-> k, quantity |-> calcs[k],
                            is_manual_override |-> FALSE,
                            actual_quantity |-> <<>>, actual_comment |-> NoneV]},
                 codes \ {k}, calcs, cat)

\* the items the removal loop deletes
Removed(calcs, old) ==
    {old[k] : k \in {x \in DOMAIN old :
                        x \notin DOMAIN calcs /\ ~old[x].is_manual_override}}

\* diff.removed
RemovedDiff(calcs, old) ==
    {[productCode |-> i.product_code, oldQuantity |-> i.quantity] : i \in Removed(calcs, old)}

Computed(its, calcs, cat, old) ==
    LET removed == Removed(calcs, old)
        touched == {old[k] : k \in DOMAIN old \cap DOMAIN cat}
        updated == {Upserted(old[k], calcs[k], cat[k]) : k \in DOMAIN old \cap DOMAIN cat}
        fresh   == DOMAIN cat \ DOMAIN old
    IN  WithNewItems(((its \ removed) \ touched) \cup updated, fresh, calcs, cat)

ComputeBoq ==
    \E calcs \in CalcSamples :
      \E cat \in Resolutions(catalog, DOMAIN calcs) :
        \E old \in Resolutions(items, {i.product_code : i \in items}) :
            /\ Cardinality(items) + Cardinality(DOMAIN cat \ DOMAIN old) <= MaxItems
            /\ items' = Computed(items, calcs, cat, old)
            /\ out = NoOut
            /\ out' = [NoOut EXCEPT !.status = "computed", !.codes = DOMAIN calcs,
                                    !.removed = RemovedDiff(calcs, old)]
            /\ UNCHANGED <<patchVars, tssrVars, xlsx, catalog>>

(***************************************************************************)
(* export_boq                                                              *)
(***************************************************************************)
Orders(S) ==
    {f \in [1..Cardinality(S) -> S] : \A a, b \in DOMAIN f : f[a] = f[b] => a = b}

\* item.catalog_item, when it carries a sheet name and a row index
Anchored(i, cat) == \E c \in cat : CatId(c) = i.catalog_item_id

HasActuals(i) == i.actual_quantity # <<>> \/ Truthy(i.actual_comment)

Max(S) == CHOOSE x \in S : \A y \in S : x >= y

\* qty_map / act_map: the last item of the query result wins a key
LastAt(order, key, pick) ==
    order[Max({n \in DOMAIN order : order[n].catalog_item_id = key /\ pick[n]})]

QtyKeys(order, cat) ==
    {order[n].catalog_item_id : n \in {m \in DOMAIN order : Anchored(order[m], cat)}}

ActKeys(order, cat) ==
    {order[n].catalog_item_id :
        n \in {m \in DOMAIN order : Anchored(order[m], cat) /\ HasActuals(order[m])}}

\* the value of one cell of a data sheet after the three fill passes
CellAfterFill(name, rc, old, order, cat, proj) ==
    LET key == <<name, rc[1]>>
        all == [n \in DOMAIN order |-> TRUE]
        act == [n \in DOMAIN order |-> HasActuals(order[n])]
    IN  IF rc = <<4, 3>> THEN StrCell(proj.site_id)
        ELSE IF rc = <<5, 3>> THEN StrCell(proj.site_name)
        ELSE IF rc[2] = COL_D_QUANTITY /\ key \in QtyKeys(order, cat)
                /\ LastAt(order, key, all).quantity > 0
          THEN NumCell(LastAt(order, key, all).quantity)
        ELSE IF rc[2] = COL_F_ACT_QTY /\ key \in ActKeys(order, cat)
                /\ LastAt(order, key, act).actual_quantity # <<>>
          THEN NumCell(LastAt(order, key, act).actual_quantity[1])
        ELSE IF rc[2] = COL_G_ACT_COMMENT /\ key \in ActKeys(order, cat)
                /\ Truthy(LastAt(order, key, act).actual_comment)
          THEN StrCell(LastAt(order, key, act).actual_comment.s)
        ELSE old

\* a fill that runs over every sheet of the workbook
FilledCellEverySheet(name, rc, old, order, cat, proj) ==
    CellAfterFill(name, rc, old, order, cat, proj)

\* for sheet_name in DATA_SHEETS: if sheet_name not in wb.sheetnames: continue
FilledCell(name, rc, old, order, cat, proj) ==
    IF name \notin DATA_SHEETS THEN old
    ELSE CellAfterFill(name, rc, old, order, cat, proj)

FilledSheets(file, order, cat, proj) ==
    [name \in DOMAIN file.sheets |->
        [rc \in DOMAIN file.sheets[name] |->
            FilledCell(name, rc, file.sheets[name][rc], order, cat, proj)]]

BoqFilename(proj, as_built, ext) ==
    LET site == IF proj.site_id # <<>> THEN proj.site_id ELSE <<"e","x","p","o","r","t">>
    IN  IF as_built
          THEN site \o <<"_BOQ_AsBuilt_v">> \o Fmt02(proj.as_built_boq_version)
                  \o <<".">> \o ext
          ELSE <<"BoQ_">> \o site \o <<".">> \o ext

ExportBoq ==
    \E format \in {"xlsm", "xlsx"}, as_built \in BOOLEAN, order \in Orders(items) :
        /\ out = NoOut
        /\ as_built => project.as_built_boq_version < MaxVersion
        /\ IF ~xlsx.exists
             THEN /\ out' = [NoOut EXCEPT !.status = "500 Template not found",
                                           !.detail = <<"Template not found: ">>
                                                         \o CATALOG_EXCEL_PATH,
                                           !.as_built = as_built]
                  /\ project' = project
             ELSE /\ project' = IF as_built
                                  THEN [project EXCEPT !.as_built_boq_version = @ + 1]
                                  ELSE project
                  /\ out' = [status |-> "ok",
                             sheets |-> FilledSheets(xlsx, order, catalog, project),
                             vba |-> (format # "xlsx"),
                             filename |-> BoqFilename(project', as_built,
                                            IF format = "xlsx" THEN <<"xlsx">>
                                                               ELSE <<"xlsm">>),
                             detail |-> <<>>,
                             as_built |-> as_built,
                             codes |-> {},
                             removed |-> {}]
        /\ UNCHANGED <<patchVars, inputVars, body, tssr, tpl, fieldMap, req, pc, idx, doc, writes, resp,
                       xlsx, catalog, items>>

\* scripts/import_catalog.py on the configured workbook
ImportCatalog ==
    /\ xlsx.exists
    /\ out = NoOut
    /\ catalog' = ImportSheets(catalog, xlsx)
    /\ out' = out
    /\ UNCHANGED <<patchVars, tssrVars, xlsx, items>>

\* scripts/import_catalog.py run with the path of another workbook
ImportCatalogFrom ==
    \E file \in XlsxSamples :
        /\ file.exists
        /\ file # xlsx
        /\ out = NoOut
        /\ catalog' = ImportSheets(catalog, file)
        /\ out' = out
        /\ UNCHANGED <<patchVars, tssrVars, xlsx, items>>

\* the response leaves the server; the next request finds none in flight
SendResponse ==
    /\ out # NoOut
    /\ out' = NoOut
    /\ UNCHANGED <<patchVars, tssrVars, xlsx, catalog, items>>

InitBoq ==
    /\ IdleSessions
    /\ IdleTssr
    /\ IdlePatch
    /\ IdleApp
    /\ xlsx \in XlsxSamples
    /\ catalog = {}
    /\ items \in {{}, {CustomItem}}
    /\ out = NoOut

IdleBoq ==
    /\ xlsx = XlsxMissing
    /\ catalog = {}
    /\ items = {}
    /\ out = NoOut

NextBoq ==
    \/ ImportCatalog
    \/ AddBoqItem
    \/ UpdateBoqItem
    \/ RemoveBoqItem
    \/ ComputeBoq
    \/ ExportBoq
    \/ SendResponse

(***************************************************************************)
(* Sample photos and annotations.                                          *)
(***************************************************************************)
Photo(id, section, sort_order, phase, file, annotations) ==
    [id |-> id, section |-> section, sort_order |-> sort_order, phase |-> phase,
     file |-> file, annotations |-> annotations,
     auto_filename |-> IF id % 2 = 1 THEN <<"auto", Dec(id)[1], ".jpg">> ELSE <<>>,
     original_filename |-> <<"IMG", Dec(id)[1], ".jpg">>,
     caption |-> IF id % 3 = 2 THEN <<"roof">> ELSE <<>>]

TextNoLabel == Ann("text", 1, <<>>)

AnnSamples ==
    {Ann("arrow", 2, <<>>),
     Ann("line", 1, <<>>),
     Ann("text", 1, <<"hi">>),
     TextNoLabel,
     Ann("text", 0, <<"hi">>),
     Ann("polygon", 3, <<>>),
     [Ann("measure", 2, <<>>) EXCEPT !.dist = <<"5">>],
     [Ann("rectangle", 2, <<>>) EXCEPT !.wellformed = FALSE],
     [Ann("circle", 2, <<>>) EXCEPT !.color = "pink"]}

PhotoSamples ==
    {Photo(1, "site_overview", 2, "planning", "ok", <<>>),
     Photo(2, "other", 1, "planning", "ok", <<TextNoLabel>>),
     Photo(3, "site_overview", 1, "planning", "corrupt", <<Ann("arrow", 2, <<>>)>>),
     Photo(4, "", 0, "planning", "ok",
           <<[Ann("rectangle", 2, <<>>) EXCEPT !.wellformed = FALSE]>>),
     Photo(5, "roof", 0, "planning", "ok", <<>>),
     Photo(6, "other", 0, "planning", "missing", <<>>),
     Photo(7, "detail_photos", 0, "planning", "corrupt", <<>>)}

WorksItem(text, fields, derivation) ==
    [text |-> text, manualFields |-> fields, derivation |-> derivation]

Field(label, value) == [label |-> label, value |-> value]

\* items with free text, with fields only, and with neither
ItemSamples ==
    {WorksItem(<<" ", "Install RRU">>, <<>>, <<"rule 4">>),
     WorksItem(<<" ">>, <<Field(<<"Qty">>, <<" ", "2", " ">>), Field(<<>>, <<"north">>),
                          Field(<<"Note">>, <<" ">>)>>, <<>>),
     WorksItem(<<>>, <<>>, <<>>),
     WorksItem(<<"Mount">>, <<Field(<<"Qty">>, <<"3">>)>>, <<>>),
     WorksItem(<<>>, <<Field(<<"Qty">>, <<>>)>>, <<"rule 9">>)}

MaxWorkItems == 2

SectionSamples ==
    {[title |-> t, items |-> its] :
        t \in {<<>>, <<"Radio">>}, its \in SeqsUpTo(ItemSamples, MaxWorkItems)}

Works(sections) == [truthy |-> TRUE, sections |-> sections]

\* planned_works values: None, a dict without sections, one section, two sections
WorksInputs ==
    {NoWorks, Works(<<>>)}
    \cup {Works(<<sec>>) : sec \in SectionSamples}
    \cup {Works(<<a, b>>) :
            a \in {sec \in SectionSamples : Len(sec.items) = 1},
            b \in {[title |-> <<"Power">>, items |-> <<>>],
                   [title |-> <<"Power">>,
                    items |-> <<WorksItem(<<"Fuse">>, <<>>, <<>>)>>]}}

MaxPhotos == 3

MaxAnns == 2

\* the lists of distinct photos of S, of length n at most
ListsOf(S, n) ==
    UNION {{f \in [1..m -> S] : \A a, b \in 1..m : f[a] = f[b] => a = b} : m \in 0..n}

(***************************************************************************)
(* The photo appendix and the annotation renderer applied to one input.    *)
(***************************************************************************)
InitAppendix ==
    /\ IdleSessions
    /\ IdleTssr
    /\ IdleBoq
    /\ IdlePatch
    /\ \/ \E ps \in ListsOf(PhotoSamples, MaxPhotos) :
            app = [NoApp EXCEPT !.fn = "insert", !.photos = ps]
       \/ \E anns \in SeqsUpTo(AnnSamples, MaxAnns), file \in {"ok", "corrupt"} :
            app = [NoApp EXCEPT !.fn = "render", !.anns = anns, !.file = file]
       \/ \E pw \in WorksInputs :
            app = [NoApp EXCEPT !.fn = "works", !.works = pw]

\* _insert_photos_into_doc(doc, photos) on an empty body
CallInsertPhotos ==
    /\ app.fn = "insert"
    /\ ~app.done
    /\ LET r == InsertPhotos(app.photos)
       IN  app' = [app EXCEPT !.done = TRUE, !.ok = r.ok, !.els = r.els]
    /\ UNCHANGED <<patch, sessions, tssrVars, boqVars>>

\* _render_annotations(image_path, annotations)
CallRenderAnnotations ==
    /\ app.fn = "render"
    /\ ~app.done
    /\ LET r == RenderAnnotations(Photo(1, "other", 0, "planning", app.file, app.anns),
                                  app.anns)
       IN  app' = [app EXCEPT !.done = TRUE, !.ok = ~r.raised, !.img = r.img]
    /\ UNCHANGED <<patch, sessions, tssrVars, boqVars>>

\* _insert_planned_works_into_doc(doc, planned_works) on an empty body
CallInsertPlannedWorks ==
    /\ app.fn = "works"
    /\ ~app.done
    /\ app' = [app EXCEPT !.done = TRUE, !.els = InsertPlannedWorks(app.works)]
    /\ UNCHANGED <<patch, sessions, tssrVars, boqVars>>

NextAppendix == CallInsertPhotos \/ CallRenderAnnotations \/ CallInsertPlannedWorks

SpecAppendix == InitAppendix /\ [][NextAppendix]_vars

(***************************************************************************)
(* The exports of one project: the two TSSR formats and the BOQ workbook,  *)
(* over stored photos, planned works and deviation notes.                  *)
(***************************************************************************)
\* the project_photos rows of the project
PhotoRowSets ==
    {{},
     {Photo(1, "site_overview", 2, "planning", "ok", <<>>),
      Photo(2, "other", 1, "as_built", "ok", <<>>)},
     {Photo(1, "site_overview", 2, "planning", "ok", <<>>),
      Photo(2, "other", 1, "as_built", "ok", <<>>),
      Photo(8, "unsorted", 0, "as_built", "ok", <<>>),
      Photo(9, "cable_route", 0, "", "ok", <<TextNoLabel>>)},
     {Photo(2, "other", 1, "as_built", "ok", <<>>),
      Photo(5, "unsorted", 0, "planning", "ok", <<>>)},
     {Photo(3, "site_overview", 1, "planning", "corrupt", <<Ann("arrow", 2, <<>>)>>),
      Photo(1, "site_overview", 2, "planning", "ok", <<>>)},
     {Photo(6, "other", 0, "survey", "ok", <<>>)}}

\* the values of the planned_works column
WorksSamples ==
    {NoWorks,
     [truthy |-> TRUE, sections |-> <<>>],
     [truthy |-> TRUE,
      sections |-> << [title |-> <<"Radio">>,
                       items |-> << WorksItem(<<" ", "Install RRU">>, <<>>, <<"rule 4">>),
                                    WorksItem(<<>>, <<[label |-> <<"Qty">>,
                                                       value |-> <<" ", "2", " ">>]>>,
                                              <<>>) >>],
                      [title |-> <<"Power">>, items |-> <<>>] >>]}

\* the values of the deviations_free_text column
DeviationSamples == {NoneV, StrV(<<>>), StrV(<<"mast moved 2 m">>)}

InitExport ==
    /\ IdleSessions
    /\ tssr = TssrBase
    /\ project = ProjectInit
    /\ tpl \in {[exists |-> TRUE, doc |-> TplSmall], [exists |-> TRUE, doc |-> TplNested],
                [exists |-> FALSE, doc |-> NoDoc]}
    /\ fieldMap = <<TEMPLATE_MAP[1]>>
    /\ req = [format |-> "legacy", as_built |-> FALSE]
    /\ pc = "idle"
    /\ idx = 1
    /\ doc = NoDoc
    /\ writes = <<>>
    /\ resp = NoResp
    /\ body = <<>>
    /\ photos \in PhotoRowSets
    /\ planned_works \in WorksSamples
    /\ deviations_free_text \in DeviationSamples
    /\ IdlePatch
    /\ IdleApp
    /\ xlsx \in {XlsxB, XlsxMissing}
    /\ catalog = {}
    /\ items = {}
    /\ out = NoOut

NextExport ==
    \/ ExportModern
    \/ LegacyLoad
    \/ LegacyEntry
    \/ LegacyFinish
    \/ ExportBoq
    \/ SendResponse

SpecExport == InitExport /\ [][NextExport]_vars

InitTssr ==
    /\ IdleSessions
    /\ tssr \in TssrSamples
    /\ project = ProjectInit
    /\ tpl \in {[exists |-> TRUE, doc |-> t] : t \in TemplateSamples}
                \cup {[exists |-> FALSE, doc |-> NoDoc]}
    /\ fieldMap \in FieldMapSamples
    /\ req = [format |-> "legacy", as_built |-> FALSE]
    /\ pc = "idle"
    /\ idx = 1
    /\ doc = NoDoc
    /\ writes = <<>>
    /\ resp = NoResp
    /\ body = <<>>
    /\ photos = {}
    /\ planned_works = NoWorks
    /\ deviations_free_text = NoneV
    /\ IdlePatch
    /\ IdleApp
    /\ IdleBoq

SpecTssr == InitTssr /\ [][NextTssr]_vars

SpecBoq == InitBoq /\ [][NextBoq]_vars

\* imports, computes and exports: the operations that meet the catalog
NextCatalog ==
    \/ ImportCatalog
    \/ ImportCatalogFrom
    \/ AddBoqItem
    \/ ComputeBoq
    \/ ExportBoq
    \/ SendResponse

SpecCatalog == InitBoq /\ [][NextCatalog]_vars

(***************************************************************************)
(* The patchers applied to one control or one cell, once and again.        *)
(***************************************************************************)
InitPatch ==
    /\ IdleSessions
    /\ IdleTssr
    /\ IdleBoq
    /\ IdleApp
    /\ \E v \in ValueSamples :
        \/ \E s \in SdtSamples :
              patch = [kind |-> "sdt", value |-> v, pre |-> s, cur |-> s,
                       once |-> s, calls |-> 0]
        \/ \E c \in CellSamples :
              patch = [kind |-> "cell", value |-> v, pre |-> c, cur |-> c,
                       once |-> c, calls |-> 0]

MaxCalls == 2

ApplySdt ==
    /\ patch.kind = "sdt"
    /\ patch.calls < MaxCalls
    /\ LET new == SetSdtValue(patch.cur, patch.value)
       IN  patch' = [patch EXCEPT !.cur = new,
                                  !.once = IF patch.calls = 0 THEN new ELSE @,
                                  !.calls = @ + 1]
    /\ UNCHANGED <<app, sessions, tssrVars, boqVars>>

ApplyCell ==
    /\ patch.kind = "cell"
    /\ patch.calls < MaxCalls
    /\ LET new == PatchCell(patch.cur, patch.value)
       IN  patch' = [patch EXCEPT !.cur = new,
                                  !.once = IF patch.calls = 0 THEN new ELSE @,
                                  !.calls = @ + 1]
    /\ UNCHANGED <<app, sessions, tssrVars, boqVars>>

NextPatch == ApplySdt \/ ApplyCell

SpecPatch == InitPatch /\ [][NextPatch]_vars

(***************************************************************************)
(* Two export requests for the same project, each in the session get_db    *)
(* opens for it. A session selects the Project row into an object of its   *)
(* own; "+= 1" adds one to that object's attribute and the commit writes   *)
(* the attribute's value to the row. The requests interleave at every      *)
(* await between the select and the commit.                                *)
(***************************************************************************)
Counter(kind) == IF kind = "tssr" THEN "as_built_tssr_version" ELSE "as_built_boq_version"

\* select(Project).where(Project.id == project_id) in the request's session
SessionSelect(s) ==
    \E kind \in {"tssr", "boq"}, as_built \in BOOLEAN :
        /\ sessions[s].pc = "idle"
        /\ sessions' = [sessions EXCEPT ![s] = [@ EXCEPT !.pc = "selected",
                                                         !.kind = kind,
                                                         !.as_built = as_built,
                                                         !.obj = project]]
        /\ UNCHANGED <<patch, app, tssrVars, boqVars>>

\* project.as_built_<kind>_version += 1; await db.commit()
SessionCommit(s) ==
    LET c == Counter(sessions[s].kind)
        obj == [sessions[s].obj EXCEPT ![c] = @ + 1]
    IN  /\ sessions[s].pc = "selected"
        /\ sessions[s].as_built
        /\ sessions' = [sessions EXCEPT ![s] = [@ EXCEPT !.pc = "committed", !.obj = obj]]
        /\ project' = [project EXCEPT ![c] = obj[c]]
        /\ UNCHANGED <<patch, app, inputVars, tssr, tpl, fieldMap, req, pc, idx, doc, writes,
                       resp, body, boqVars>>

\* the filename of the response, from the session's object
SessionRespond(s) ==
    LET r == sessions[s]
    IN  /\ r.pc = (IF r.as_built THEN "committed" ELSE "selected")
        /\ sessions' = [sessions EXCEPT ![s] =
              [@ EXCEPT !.pc = "done",
                        !.filename = IF r.kind = "tssr"
                                       THEN TssrFilename(tssr, r.obj, r.as_built, FALSE)
                                       ELSE BoqFilename(r.obj, r.as_built, <<"xlsm">>)]]
        /\ UNCHANGED <<patch, app, tssrVars, boqVars>>

InitConcurrent ==
    /\ IdleSessions
    /\ IdleTssr
    /\ IdleBoq
    /\ IdlePatch
    /\ IdleApp

NextConcurrent ==
    \E s \in Requests : SessionSelect(s) \/ SessionCommit(s) \/ SessionRespond(s)

SpecConcurrent == InitConcurrent /\ [][NextConcurrent]_vars

(***************************************************************************)
(* Claims                                                                  *)
(***************************************************************************)
Legacy == req.format = "legacy"

\* the entries the legacy loop has been through
Processed == IF Legacy /\ pc \in {"loop", "done"} THEN 1..(idx - 1) ELSE {}

FalsyCondition(e) ==
    e.condition_field # "" /\ ~Truthy(GetAttr(tssr, e.condition_field, BoolV(FALSE)))

\* C1: in the legacy export, a tag-kind entry whose condition field is falsy
\* on the record writes the empty string into every control listed under its
\* tag, whatever the source field holds.
C1_FalsyConditionWritesEmpty ==
    \A n \in Processed :
        LET e == fieldMap[n]
        IN  (e.type \in TagKinds /\ FalsyCondition(e)) =>
               /\ \A w \in DOMAIN writes :
                      writes[w].entry = n => writes[w].value = <<>>
               /\ \A i \in DOMAIN doc.sdts :
                      doc.sdts[i].pr.tag = e.tag /\ e.tag # "" =>
                          \E w \in DOMAIN writes :
                              /\ writes[w].entry = n
                              /\ writes[w].kind = "sdt"
                              /\ writes[w].at = <<i>>

C1_Witness ==
    /\ pc = "done"
    /\ \E w \in DOMAIN writes :
          LET e == fieldMap[writes[w].entry]
          IN  /\ e.type \in TagKinds
              /\ FalsyCondition(e)
              /\ Truthy(tssr[e.db_field])
              /\ writes[w].value = <<>>

\* C2: exporting a record with iloq_required = false and iloq_details = "X"
\* leaves the iLOQ details field with empty text: the table-0 row-11 cell of
\* the legacy export, the control tagged iLOQDetails of the modern export.
C2_IloqDetailsEmpty ==
    (/\ pc = "done"
     /\ ~Truthy(tssr["iloq_required"])
     /\ tssr["iloq_details"] = StrV(<<"X">>)) =>
        IF Legacy
          THEN (fieldMap = TEMPLATE_MAP /\ CellInRange(doc, TEMPLATE_MAP[13])) =>
                   CellText(doc.tables[1][12][2]) = <<>>
          ELSE \A i \in DOMAIN doc.sdts :
                   doc.sdts[i].pr.tag = "iLOQDetails" => VisibleText(doc.sdts[i]) = <<>>

\* the legacy half of C2 alone (it holds)
C2_LegacyCellEmpty ==
    (/\ pc = "done"
     /\ Legacy
     /\ ~Truthy(tssr["iloq_required"])
     /\ fieldMap = TEMPLATE_MAP
     /\ CellInRange(doc, TEMPLATE_MAP[13])) =>
        CellText(doc.tables[1][12][2]) = <<>>

\* C3: after _set_sdt_value(control, V) on a control whose content holds at
\* least one paragraph or run, the visible text of the control is exactly V.
C3_RoundTrip ==
    (/\ patch.kind = "sdt"
     /\ patch.calls >= 1
     /\ patch.pre.hasContent
     /\ patch.pre.content # <<>>) =>
        VisibleText(patch.once) = patch.value

\* C4: after _set_sdt_value the content holds exactly one run, the first
\* pre-existing run (properties unchanged) when runs pre-existed, and the
\* control's own properties are unchanged.
C4_ExactlyOneRun ==
    (patch.kind = "sdt" /\ patch.calls >= 1) =>
        /\ RunCount(patch.once) = 1
        /\ RunCount(patch.pre) > 0 =>
              AllRuns(patch.once)[1].rPr = AllRuns(patch.pre)[1].rPr
        /\ patch.once.pr = patch.pre.pr

\* C5: patching a control, or a plain cell, a second time with the same value
\* leaves the tree as it was after the first time.
C5_Idempotent ==
    patch.calls >= 2 => patch.cur = patch.once

C5_Witness ==
    /\ patch.calls = 2
    /\ patch.kind = "sdt"
    /\ RunCount(patch.pre) > 1
    /\ patch.once # patch.pre
    /\ patch.value # <<>>

RemoveAt(seq, n) == SubSeq(seq, 1, n - 1) \o SubSeq(seq, n + 1, Len(seq))

\* no control of d carries tag
TagAbsent(d, tag) == \A i \in DOMAIN d.sdts : d.sdts[i].pr.tag # tag

\* C6: a tag-kind entry whose tag no control of the template carries changes
\* nothing and raises nothing; the export ends with the document it would
\* have produced from the field map without that entry.
C6_AbsentTagSkipped ==
    (pc = "done" /\ Legacy) =>
        \A n \in DOMAIN fieldMap :
            (fieldMap[n].type \in TagKinds /\ TagAbsent(tpl.doc, fieldMap[n].tag)) =>
                /\ resp.status = "ok"
                /\ \A w \in DOMAIN writes : writes[w].entry # n
                /\ doc = FillAll(tpl.doc, RemoveAt(fieldMap, n), tssr)

C6_Witness ==
    /\ pc = "done"
    /\ Legacy
    /\ doc # tpl.doc
    /\ \E n \in DOMAIN fieldMap :
          /\ n < Len(fieldMap)
          /\ fieldMap[n].type \in TagKinds
          /\ TagAbsent(tpl.doc, fieldMap[n].tag)

OutOfRange(d, e) ==
    \/ e.table >= Len(d.tables)
    \/ e.row >= Len(d.tables[e.table + 1])
    \/ e.col >= Len(d.tables[e.table + 1][e.row + 1])

\* C8: a plain_cell entry whose table, row or column is out of range modifies
\* no cell and raises nothing; the export ends with the document it would
\* have produced from the field map without that entry.
C8_OutOfRangeCellSkipped ==
    (pc = "done" /\ Legacy) =>
        \A n \in DOMAIN fieldMap :
            (fieldMap[n].type = "plain_cell" /\ OutOfRange(tpl.doc, fieldMap[n])) =>
                /\ resp.status = "ok"
                /\ \A w \in DOMAIN writes : writes[w].entry # n
                /\ doc = FillAll(tpl.doc, RemoveAt(fieldMap, n), tssr)

C8_Witness ==
    /\ pc = "done"
    /\ Legacy
    /\ doc # tpl.doc
    /\ \E n \in DOMAIN fieldMap :
          /\ n < Len(fieldMap)
          /\ fieldMap[n].type = "plain_cell"
          /\ fieldMap[n].table < Len(tpl.doc.tables)
          /\ OutOfRange(tpl.doc, fieldMap[n])

(***************************************************************************)
(* export_boq                                                              *)
(***************************************************************************)
Exported == out.status = "ok"

\* the item is linked to a catalog row of an allow-listed sheet of the workbook
OnDataSheet(i) ==
    /\ \E c \in catalog : <<c.sheet_name, c.row_index>> = i.catalog_item_id
    /\ i.catalog_item_id[1] \in DATA_SHEETS \cap DOMAIN xlsx.sheets

ItemsAt(sheet, row) ==
    {i \in items : OnDataSheet(i) /\ i.catalog_item_id = <<sheet, row>>}

\* C9: after an export, column D at the anchor row of every anchored item
\* holds the item's quantity when it is positive and the template's value
\* otherwise, and no quantity cell is written away from the items' anchors.
C9_QuantityAtAnchor ==
    Exported =>
        /\ \A i \in items :
              OnDataSheet(i) =>
                LET s  == i.catalog_item_id[1]
                    rc == <<i.catalog_item_id[2], COL_D_QUANTITY>>
                IN  IF i.quantity > 0
                      THEN out.sheets[s][rc] = NumCell(i.quantity)
                      ELSE out.sheets[s][rc] = xlsx.sheets[s][rc]
        /\ \A s \in DOMAIN xlsx.sheets :
              \A rc \in DOMAIN xlsx.sheets[s] :
                (rc[2] = COL_D_QUANTITY /\ out.sheets[s][rc] # xlsx.sheets[s][rc])
                    => ItemsAt(s, rc[1]) # {}

C11_AnchorsImmutable ==
    [][/\ \A c \in catalog : c \in catalog'
       /\ \A c, d \in catalog' :
             (c.sheet_name = d.sheet_name /\ c.row_index = d.row_index) => c = d
       /\ (out = NoOut /\ out' # NoOut) => catalog' = catalog]_vars

(***************************************************************************)
(* Claims about the photo appendix and the annotation renderer.            *)
(***************************************************************************)
Inserted == app.fn = "insert" /\ app.done

Rendered == app.fn = "render" /\ app.done

\* the position in PHOTO_SECTION_ORDER of the section a level-2 heading names, 0 for none
SectionIndex(text) ==
    IF \E n \in DOMAIN PHOTO_SECTION_ORDER : PHOTO_SECTION_LABELS[PHOTO_SECTION_ORDER[n]] = text
      THEN CHOOSE n \in DOMAIN PHOTO_SECTION_ORDER :
              PHOTO_SECTION_LABELS[PHOTO_SECTION_ORDER[n]] = text
    ELSE 0

SectionHeadingAt(els, i) == els[i].k = "heading" /\ els[i].level = 2

PictureOf(els, i, photo) == els[i].k = "picture" /\ els[i].img.src = photo.id

\* C15: for every photo list given to the photo appendix, the level-2 section
\* headings name sections of PHOTO_SECTION_ORDER and appear in that order,
\* whatever the order of the list; a picture of a site_overview photo always
\* comes before a picture of a photo of section other.
C15_SectionOrderFixed ==
    Inserted =>
        /\ \A i, j \in DOMAIN app.els :
              (SectionHeadingAt(app.els, i) /\ SectionHeadingAt(app.els, j) /\ i < j)
                 => /\ SectionIndex(app.els[i].text) > 0
                    /\ SectionIndex(app.els[i].text) < SectionIndex(app.els[j].text)
        /\ \A a, b \in DOMAIN app.photos : \A i, j \in DOMAIN app.els :
              (/\ app.photos[a].section = "site_overview"
               /\ app.photos[b].section = "other"
               /\ PictureOf(app.els, i, app.photos[a])
               /\ PictureOf(app.els, j, app.photos[b])) => i < j

\* a list with a photo of section other ahead of a site_overview photo, both embedded
C15_Witness ==
    /\ Inserted
    /\ \E a, b \in DOMAIN app.photos : \E i, j \in DOMAIN app.els :
          /\ b < a
          /\ app.photos[a].section = "site_overview"
          /\ app.photos[b].section = "other"
          /\ PictureOf(app.els, i, app.photos[a])
          /\ PictureOf(app.els, j, app.photos[b])

\* C16: photo-appendix insertion runs to completion for every photo list,
\* also when rendering or embedding raises for some photo, and every photo
\* of a known section whose file python-docx can read is embedded.
C16_BadPhotoNeverAborts ==
    Inserted =>
        /\ app.ok
        /\ \A a \in DOMAIN app.photos :
              (/\ DocxReads(app.photos[a].file)
               /\ SectionOf(app.photos[a]) \in DOMAIN PHOTO_SECTION_LABELS)
                 => \E i \in DOMAIN app.els : PictureOf(app.els, i, app.photos[a])

KnownKinds == {"arrow", "line", "rectangle", "circle", "text", "measure"}

\* unknown kind, or fewer points than the kind requires
Skipped(ann) ==
    \/ ann.type \notin KnownKinds
    \/ ann.points < (IF ann.type = "text" THEN 1 ELSE 2)

\* a text without label is the one drawable annotation that leaves no mark
LeavesMark(ann) == ~Skipped(ann) /\ ~(ann.type = "text" /\ ann.label = <<>>)

\* C18: in _render_annotations over a readable image and a list whose
\* drawable annotations are well formed, an annotation of unknown kind or
\* with too few points draws nothing and raises nothing, and every other
\* annotation is still drawn, in list order.
C18_SkippedAnnotationHarmless ==
    (/\ Rendered
     /\ PillowReads(app.file)
     /\ \A n \in DOMAIN app.anns : Skipped(app.anns[n]) \/ app.anns[n].wellformed)
      => /\ app.ok
         /\ app.img.enc = "jpeg90"
         /\ \A d \in DOMAIN app.img.draws :
               /\ app.img.draws[d].ann \in DOMAIN app.anns
               /\ ~Skipped(app.anns[app.img.draws[d].ann])
         /\ \A n \in DOMAIN app.anns :
               LeavesMark(app.anns[n])
                  => \E d \in DOMAIN app.img.draws : app.img.draws[d].ann = n
         /\ \A d, e \in DOMAIN app.img.draws :
               d < e => app.img.draws[d].ann <= app.img.draws[e].ann

\* a skipped annotation ahead of one that is drawn
C18_Witness ==
    /\ Rendered
    /\ app.ok
    /\ Len(app.anns) = 2
    /\ Skipped(app.anns[1])
    /\ LeavesMark(app.anns[2])
    /\ app.anns[2].wellformed
    /\ \E d \in DOMAIN app.img.draws : app.img.draws[d].ann = 2

\* C20: a photo whose annotation list is one Text primitive with an empty
\* label is embedded as the bytes of its source file.
C20_EmptyTextByteIdentical ==
    Inserted =>
        \A a \in DOMAIN app.photos : \A i \in DOMAIN app.els :
            (/\ Len(app.photos[a].annotations) = 1
             /\ app.photos[a].annotations[1].type = "text"
             /\ app.photos[a].annotations[1].label = <<>>
             /\ PictureOf(app.els, i, app.photos[a]))
               => app.els[i].img = OriginalImage(app.photos[a])

(***************************************************************************)
(* Claims about the exports of one project.                                *)
(***************************************************************************)
\* a TSSR request starts: a step of export_tssr when none is under way
TssrRequestStarts == pc \in {"idle", "done", "failed"} /\ out' = out

\* a BOQ export answers
BoqExportAnswers == out = NoOut /\ out' # NoOut

\* C12: an as-built export adds exactly 1 to the as-built counter of its
\* document kind and the vNN of the returned filename is the counter after
\* that addition; an export with as_built = false changes neither counter,
\* and no export changes the counter of the other kind.
C12_CounterPerAsBuiltExport ==
    [][/\ TssrRequestStarts =>
            /\ project'.as_built_tssr_version =
                  project.as_built_tssr_version + (IF req'.as_built THEN 1 ELSE 0)
            /\ project'.as_built_boq_version = project.as_built_boq_version
       /\ (BoqExportAnswers /\ out'.status = "ok") =>
            /\ project'.as_built_boq_version =
                  project.as_built_boq_version + (IF out'.as_built THEN 1 ELSE 0)
            /\ project'.as_built_tssr_version = project.as_built_tssr_version
            /\ out'.as_built =>
                  \E ext \in {<<"xlsx">>, <<"xlsm">>} :
                      out'.filename = project.site_id \o <<"_BOQ_AsBuilt_v">>
                                         \o Fmt02(project'.as_built_boq_version)
                                         \o <<".">> \o ext
       /\ (~TssrRequestStarts /\ ~(BoqExportAnswers /\ out'.status = "ok"))
             => project' = project
       /\ (pc' = "done" /\ req'.as_built) =>
             resp'.filename = tssr["site_id"].s \o <<"_TSSR_AsBuilt_v">>
                                 \o Fmt02(project'.as_built_tssr_version) \o <<".docx">>]_vars

\* the second as-built TSSR export in a row has answered, after one as-built BOQ export
C12_Witness ==
    /\ pc = "done"
    /\ req.as_built
    /\ resp.status = "ok"
    /\ project.as_built_tssr_version = ProjectInit.as_built_tssr_version + 2
    /\ project.as_built_boq_version = ProjectInit.as_built_boq_version + 1

\* <identifier>_<DocumentKind>[_AsBuilt_v<NN>].<ext>
PatternName(id, kind, as_built, ver, ext) ==
    IF as_built THEN id \o <<"_" \o kind \o "_AsBuilt_v">> \o Fmt02(ver) \o ext
    ELSE id \o <<"_" \o kind>> \o ext

\* C13: every export names its document <identifier>_<DocumentKind>.<ext>,
\* or <identifier>_<DocumentKind>_AsBuilt_v<NN>.<ext> when as_built is true,
\* NN being the as-built counter in two digits.
C13_FilenamePattern ==
    /\ pc = "done" =>
          resp.filename = PatternName(tssr["site_id"].s, "TSSR", req.as_built,
                                      project.as_built_tssr_version, <<".docx">>)
    /\ out.status = "ok" =>
          \E ext \in {<<".", "xlsx">>, <<".", "xlsm">>} :
              out.filename = PatternName(project.site_id, "BOQ", out.as_built,
                                         project.as_built_boq_version, ext)

IsH1(i, text) == body[i].k = "heading" /\ body[i].level = 1 /\ body[i].text = text

WorksH1(i) == IsH1(i, <<"Description of Planned Works">>)

AsBuiltH1(i) == IsH1(i, <<"AS-BUILT DOCUMENTATION">>)

\* the heading of the main photo appendix: the one no as-built heading precedes
MainPhotoH1(i) ==
    /\ IsH1(i, <<"Photo Documentation">>)
    /\ \A j \in 1..(i - 1) : ~AsBuiltH1(j)

\* the planning phase as export_tssr reads it
PlanningPhase(p) == p.phase \in {"planning", ""}

\* C14: in every exported TSSR document the generated sections come in the
\* order planned works, photo appendix, as-built addendum (its own photo
\* pass inside it), each present only when its data is stored or as_built is
\* requested, and a page break stands immediately before every level-1 heading.
C14_SectionsInOrder ==
    pc = "done" =>
        /\ \A i, j \in DOMAIN body :
              /\ (WorksH1(i) /\ (MainPhotoH1(j) \/ AsBuiltH1(j))) => i < j
              /\ (MainPhotoH1(i) /\ AsBuiltH1(j)) => i < j
              /\ (WorksH1(i) /\ WorksH1(j)) => i = j
              /\ (MainPhotoH1(i) /\ MainPhotoH1(j)) => i = j
              /\ (AsBuiltH1(i) /\ AsBuiltH1(j)) => i = j
        /\ \A i \in DOMAIN body :
              (body[i].k = "heading" /\ body[i].level = 1)
                 => /\ i > 1
                    /\ body[i - 1] = PageBreak
                    /\ WorksH1(i) \/ AsBuiltH1(i) \/ IsH1(i, <<"Photo Documentation">>)
        /\ (\E i \in DOMAIN body : WorksH1(i))
              <=> (planned_works.truthy /\ planned_works.sections # <<>>)
        /\ (\E i \in DOMAIN body : MainPhotoH1(i))
              => \E p \in photos : PlanningPhase(p) /\ p.section # "unsorted"
        /\ (\E p \in photos : p.phase = "planning" /\ p.section # "unsorted")
              => \E i \in DOMAIN body : MainPhotoH1(i)
        /\ (\E i \in DOMAIN body : AsBuiltH1(i)) <=> req.as_built

\* a document with all three sections, the addendum with its photo pass
C14_Witness ==
    /\ pc = "done"
    /\ \E i, j, k, l \in DOMAIN body :
          /\ WorksH1(i)
          /\ MainPhotoH1(j)
          /\ AsBuiltH1(k)
          /\ l > k
          /\ IsH1(l, <<"Photo Documentation">>)

\* the stored photo a picture shows
PhotoOf(i) == CHOOSE p \in photos : p.id = body[i].img.src

InAddendum(i) == \E j \in 1..(i - 1) : AsBuiltH1(j)

\* C17: in an as-built export the addendum's photo pass shows only photos of
\* phase as_built and the main appendix only planning-phase photos; without
\* as_built the document has no addendum and no photo of phase as_built;
\* photos of section unsorted appear nowhere.
C17_PhaseSeparation ==
    pc = "done" =>
        /\ \A i \in DOMAIN body :
              body[i].k = "picture" =>
                 /\ \E p \in photos : p.id = body[i].img.src
                 /\ PhotoOf(i).section # "unsorted"
                 /\ InAddendum(i) => PhotoOf(i).phase = "as_built"
                 /\ ~InAddendum(i) => PlanningPhase(PhotoOf(i))
        /\ ~req.as_built =>
              /\ \A i \in DOMAIN body : ~AsBuiltH1(i)
              /\ \A i \in DOMAIN body :
                    body[i].k = "picture" => PhotoOf(i).phase # "as_built"

\* an as-built export with a picture on each side of the as-built heading,
\* over stored photos that include an unsorted one
C17_Witness ==
    /\ pc = "done"
    /\ req.as_built
    /\ \E p \in photos : p.section = "unsorted"
    /\ \E i, j \in DOMAIN body :
          /\ body[i].k = "picture"
          /\ body[j].k = "picture"
          /\ ~InAddendum(i)
          /\ InAddendum(j)

Names(detail, path) == \E i \in DOMAIN detail : <<detail[i]>> = path

\* C19: without its template file the legacy TSSR export and the BOQ export
\* fail with an error that names the template path, return no document and
\* run no patching or assembly step.
C19_MissingTemplateFatal ==
    /\ (~tpl.exists /\ req.format = "legacy" /\ pc # "idle") =>
          /\ pc = "failed"
          /\ resp.status # "ok"
          /\ Names(resp.detail, TSSR_TEMPLATE_PATH)
          /\ resp.filename = <<>>
          /\ doc = NoDoc
          /\ writes = <<>>
          /\ body = <<>>
    /\ (~xlsx.exists /\ out # NoOut) =>
          /\ out.status # "ok"
          /\ Names(out.detail, CATALOG_EXCEL_PATH)
          /\ out.filename = <<>>
          /\ out.sheets = <<>>

\* both exports have failed on their missing templates
C19_Witness ==
    /\ ~tpl.exists
    /\ req.format = "legacy"
    /\ pc = "failed"
    /\ ~xlsx.exists
    /\ out # NoOut

\* no section heading stands between the blocks i and j of the appendix
SameSection(els, i, j) == \A h \in (i + 1)..(j - 1) : ~SectionHeadingAt(els, h)

\* C23: within each rendered section of the photo appendix the photos appear
\* in non-decreasing sort_order, whatever the order of the list handed in.
C23_SortOrderWithinSection ==
    Inserted =>
        \A a, b \in DOMAIN app.photos : \A i, j \in DOMAIN app.els :
            (/\ PictureOf(app.els, i, app.photos[a])
             /\ PictureOf(app.els, j, app.photos[b])
             /\ i < j
             /\ SameSection(app.els, i, j))
               => app.photos[a].sort_order <= app.photos[b].sort_order

\* the caption the claim gives a photo (the long dash is written "-")
ClaimedCaption(photo) ==
    (IF photo.auto_filename # <<>> THEN photo.auto_filename ELSE photo.original_filename)
    \o (IF photo.caption # <<>> THEN <<" - ">> \o photo.caption ELSE <<>>)

\* the blocks of the appendix that show the photo
PicturesOf(els, photo) == {i \in DOMAIN els : PictureOf(els, i, photo)}

\* C27: in a photo-appendix pass that completes, every photo adds either one
\* picture immediately followed by its caption, or nothing; a photo whose
\* file is missing or whose unannotated embedding fails adds nothing, no
\* caption stands without its picture, and the caption text is the auto
\* filename if set, else the original filename, then the user caption if any.
C27_PictureCaptionPairs ==
    (Inserted /\ app.ok) =>
        /\ \A a \in DOMAIN app.photos :
              /\ Cardinality(PicturesOf(app.els, app.photos[a])) <= 1
              /\ \A i \in PicturesOf(app.els, app.photos[a]) :
                    /\ i + 1 \in DOMAIN app.els
                    /\ app.els[i + 1].k = "caption"
                    /\ app.els[i + 1].text = ClaimedCaption(app.photos[a])
              /\ (\/ app.photos[a].file = "missing"
                  \/ app.photos[a].annotations = <<>> /\ app.photos[a].file = "corrupt")
                    => PicturesOf(app.els, app.photos[a]) = {}
        /\ \A i \in DOMAIN app.els :
              app.els[i].k = "caption" => (i > 1 /\ app.els[i - 1].k = "picture")
        /\ \A i \in DOMAIN app.els :
              app.els[i].k = "picture" =>
                 \E a \in DOMAIN app.photos : app.els[i].img.src = app.photos[a].id

\* a completed pass that skipped an unreadable photo and embedded one with a user caption
C27_Witness ==
    /\ Inserted
    /\ app.ok
    /\ \E a, b \in DOMAIN app.photos :
          /\ app.photos[a].file = "corrupt"
          /\ SectionOf(app.photos[a]) \in DOMAIN PHOTO_SECTION_LABELS
          /\ app.photos[b].caption # <<>>
          /\ PicturesOf(app.els, app.photos[b]) # {}

SectionKeys == {PHOTO_SECTION_ORDER[n] : n \in DOMAIN PHOTO_SECTION_ORDER}

\* the section heading the block i stands under
HeadingAbove(els, i) ==
    els[CHOOSE h \in 1..i : SectionHeadingAt(els, h) /\ SameSection(els, h, i + 1)].text

\* C28: a photo whose section is non-empty and no key of the section order is
\* never rendered and raises nothing; a photo with an empty section is
\* rendered under "Other Photos".
C28_UnknownSectionDropped ==
    Inserted =>
        /\ \A a \in DOMAIN app.photos :
              (app.photos[a].section # "" /\ app.photos[a].section \notin SectionKeys)
                 => PicturesOf(app.els, app.photos[a]) = {}
        /\ (\A a \in DOMAIN app.photos :
                app.photos[a].section # "" /\ app.photos[a].section \notin SectionKeys)
              => (app.ok /\ \A i \in DOMAIN app.els : ~SectionHeadingAt(app.els, i))
        /\ \A a \in DOMAIN app.photos :
              (app.ok /\ app.photos[a].section = "" /\ DocxReads(app.photos[a].file))
                 => /\ PicturesOf(app.els, app.photos[a]) # {}
                    /\ \A i \in PicturesOf(app.els, app.photos[a]) :
                          HeadingAbove(app.els, i) = PHOTO_SECTION_LABELS["other"]

\* a completed pass with fewer pictures than readable photos: one of an
\* unknown section dropped, one with an empty section embedded
C28_Witness ==
    /\ Inserted
    /\ app.ok
    /\ \E a, b \in DOMAIN app.photos :
          /\ app.photos[a].section \notin SectionKeys \cup {""}
          /\ DocxReads(app.photos[a].file)
          /\ app.photos[b].section = ""
          /\ PicturesOf(app.els, app.photos[b]) # {}
    /\ Cardinality({i \in DOMAIN app.els : app.els[i].k = "picture"})
          < Cardinality({a \in DOMAIN app.photos : DocxReads(app.photos[a].file)})

(***************************************************************************)
(* Claims about the planned-works insertion.                               *)
(***************************************************************************)
WorksInserted == app.fn = "works" /\ app.done

\* the fields of an item that have a value once trimmed
FilledFields(item) == SelectSeq(item.manualFields, LAMBDA f : Strip(f.value) # <<>>)

\* "label: value", or the value alone
ClaimedPart(f) ==
    IF f.label # <<>> THEN f.label \o <<": ">> \o Strip(f.value) ELSE Strip(f.value)

\* the display text the claim gives an item
ClaimedItemText(item) ==
    IF Strip(item.text) # <<>> THEN Strip(item.text)
    ELSE Join([n \in DOMAIN FilledFields(item) |-> ClaimedPart(FilledFields(item)[n])],
              <<"; ">>)

\* the sections the claim renders
ClaimedSections(pw) == SelectSeq(pw.sections, LAMBDA sec : sec.title # <<>> /\ sec.items # <<>>)

\* the items of a section the claim gives a paragraph
ClaimedItems(sec) == SelectSeq(sec.items, LAMBDA item : ClaimedItemText(item) # <<>>)

\* the blocks from position i up to the next level-2 heading
BlocksUnder(els, i) ==
    LET stop == IF \E j \in (i + 1)..Len(els) : SectionHeadingAt(els, j)
                  THEN CHOOSE j \in (i + 1)..Len(els) :
                          /\ SectionHeadingAt(els, j)
                          /\ \A h \in (i + 1)..(j - 1) : ~SectionHeadingAt(els, h)
                  ELSE Len(els) + 1
    IN  SubSeq(els, i + 1, stop - 1)

\* the positions of the level-2 headings, in order
HeadingPositions(els) ==
    LET P == {i \in DOMAIN els : SectionHeadingAt(els, i)}
    IN  CHOOSE f \in [1..Cardinality(P) -> P] : \A a, b \in DOMAIN f : a < b => f[a] < f[b]

\* C22: a planned-works section is rendered, heading then items, iff it has a
\* title and at least one item; an item's text is its own trimmed text or
\* else the "; "-join of its filled fields as "label: value" (the value alone
\* without label); an item without text gives no paragraph; the rendered
\* items keep their order, one bullet paragraph each.
C22_PlannedWorksRendering ==
    (WorksInserted /\ app.works.truthy /\ app.works.sections # <<>>) =>
        LET secs == ClaimedSections(app.works)
            pos  == HeadingPositions(app.els)
        IN  /\ Len(pos) = Len(secs)
            /\ \A n \in DOMAIN secs :
                  /\ app.els[pos[n]].text = secs[n].title
                  /\ LET under == BlocksUnder(app.els, pos[n])
                         its   == ClaimedItems(secs[n])
                     IN  /\ Len(under) = Len(its)
                         /\ \A m \in DOMAIN its :
                               /\ under[m].k = "bullet"
                               /\ under[m].text = ClaimedItemText(its[m])
            /\ \A i \in DOMAIN app.els :
                  app.els[i].k = "bullet" => \E h \in 1..(i - 1) : SectionHeadingAt(app.els, h)

\* two sections, one rendered with an item built from its fields, one skipped
C22_Witness ==
    /\ WorksInserted
    /\ Len(app.works.sections) = 2
    /\ Len(ClaimedSections(app.works)) = 1
    /\ \E i \in DOMAIN app.els :
          /\ app.els[i].k = "bullet"
          /\ app.els[i].text = <<"Qty", ": ", "2", "; ", "north">>

\* C29: the planned-works insertion adds its page break and the heading
\* "Description of Planned Works" iff planned_works is non-empty and has a
\* non-empty sections list, also when every section is then skipped; otherwise
\* it adds nothing.
C29_PlannedWorksHeading ==
    WorksInserted =>
        IF app.works.truthy /\ app.works.sections # <<>>
          THEN /\ Len(app.els) >= 2
               /\ app.els[1] = PageBreak
               /\ app.els[2] = Heading(<<"Description of Planned Works">>, 1)
               /\ \A i \in DOMAIN app.els :
                     i > 2 => app.els[i].k \notin {"page_break"} /\ app.els[i].level # 1
               /\ ClaimedSections(app.works) = <<>> => Len(app.els) = 2
          ELSE app.els = <<>>

\* sections stored, every one of them skipped: the heading stands alone
C29_Witness ==
    /\ WorksInserted
    /\ app.works.sections # <<>>
    /\ ClaimedSections(app.works) = <<>>
    /\ Len(app.els) = 2

(***************************************************************************)
(* Claims about plain cells and the tag index of the legacy export.        *)
(***************************************************************************)
\* the bare label of a prefix: "Site Owner: " gives "Site Owner:"
BareLabel(prefix) == RStrip(prefix, {":", " "}) \o <<":">>

\* the text the claim gives the cell of entry e
ClaimedCellText(e) ==
    IF ~FalsyCondition(e) /\ Truthy(tssr[e.db_field]) THEN e.prefix \o tssr[e.db_field].s
    ELSE IF e.prefix # <<>> THEN BareLabel(e.prefix)
    ELSE <<>>

CellAt(d, e) == d.tables[e.table + 1][e.row + 1][e.col + 1]

\* no later entry of the field map addresses the cell of entry n
LastOnCell(n) ==
    \A m \in (n + 1)..Len(fieldMap) :
        ~(/\ fieldMap[m].type = "plain_cell"
          /\ fieldMap[m].table = fieldMap[n].table
          /\ fieldMap[m].row = fieldMap[n].row
          /\ fieldMap[m].col = fieldMap[n].col)

\* C21: a plain_cell entry in range leaves its cell with the text prefix +
\* value when the gated value is non-empty, the bare label ending in one
\* colon when the value is empty and a prefix is declared, and no text
\* otherwise; the cell then holds exactly one run, with the bold, italic,
\* size, font name and color of the first run of its first paragraph as it
\* was before patching.
C21_PlainCellText ==
    (pc = "done" /\ Legacy) =>
        /\ \A w \in DOMAIN writes :
              writes[w].kind = "cell" =>
                  writes[w].value = ClaimedCellText(fieldMap[writes[w].entry])
        /\ \A n \in DOMAIN fieldMap :
              (fieldMap[n].type = "plain_cell" /\ ~OutOfRange(tpl.doc, fieldMap[n])) =>
                  /\ \E w \in DOMAIN writes : writes[w].entry = n /\ writes[w].kind = "cell"
                  /\ LastOnCell(n) =>
                        LET cell == CellAt(doc, fieldMap[n])
                            old  == CellAt(tpl.doc, fieldMap[n])
                        IN  /\ CellText(cell) = ClaimedCellText(fieldMap[n])
                            /\ CellRunCount(cell) = 1
                            /\ (old.paras # <<>> /\ old.paras[1] # <<>>) =>
                                  \A p \in {"bold", "italic", "size", "name", "color"} :
                                      cell.paras[1][1].rPr[p] = old.paras[1][1].rPr[p]

\* an export that left a bare label in one cell, the run formatted as before
C21_Witness ==
    /\ pc = "done"
    /\ Legacy
    /\ \E n \in DOMAIN fieldMap :
          /\ fieldMap[n].type = "plain_cell"
          /\ fieldMap[n].prefix # <<>>
          /\ ~OutOfRange(tpl.doc, fieldMap[n])
          /\ CellText(CellAt(doc, fieldMap[n])) = BareLabel(fieldMap[n].prefix)
          /\ CellAt(doc, fieldMap[n]).paras[1][1].rPr.bold = "true"
    /\ \E n \in DOMAIN fieldMap :
          /\ fieldMap[n].type = "plain_cell"
          /\ fieldMap[n].condition_field # ""
          /\ ~OutOfRange(tpl.doc, fieldMap[n])
          /\ Truthy(tssr[fieldMap[n].db_field])

\* C30: the tag index lists a control under tag T only when T is the tag of
\* the control's own properties: a field-map entry overwrites a control only
\* when the control's own tag equals the entry's tag, never a control that
\* has no tag of its own on behalf of a tagged control nested in it.
C30_OwnTagOnly ==
    (Legacy /\ pc \in {"loop", "done"}) =>
        \A w \in DOMAIN writes :
            writes[w].kind = "sdt" =>
                doc.sdts[writes[w].at[1]].pr.tag = fieldMap[writes[w].entry].tag

\* C25: an as-built export that aborts with an error leaves both as-built
\* counters of the project as they were before the request.
C25_FailedExportKeepsCounters ==
    [][/\ (TssrRequestStarts /\ pc' = "failed") => project' = project
       /\ (BoqExportAnswers /\ out'.status # "ok") => project' = project]_vars

(***************************************************************************)
(* Claims about compute_and_persist.                                       *)
(***************************************************************************)
\* a compute answers
ComputeAnswers == out = NoOut /\ out'.status = "computed"

\* the items the step deleted
Deleted == {i \in items : ~\E j \in items' : j.id = i.id /\ j.product_code = i.product_code}

\* C24: a compute leaves every item with is_manual_override as it is and
\* never deletes it, whether or not the rules produce its product code; it
\* deletes exactly the non-manual items whose product code no rule produces,
\* and diff.removed reports each of them.
C24_ManualOverridesKept ==
    [][ComputeAnswers =>
          /\ \A i \in items : i.is_manual_override => i \in items'
          /\ Deleted = {i \in items :
                           ~i.is_manual_override /\ i.product_code \notin out'.codes}
          /\ \A i \in Deleted :
                [productCode |-> i.product_code, oldQuantity |-> i.quantity]
                    \in out'.removed
          /\ Cardinality(out'.removed) <= Cardinality(Deleted)]_vars

(***************************************************************************)
(* Claims about concurrent exports.                                        *)
(***************************************************************************)
\* both requests were as-built exports of one document kind and have answered
BothAnswered ==
    /\ \A s \in Requests : sessions[s].pc = "done" /\ sessions[s].as_built
    /\ sessions[1].kind = sessions[2].kind

\* C26: two as-built exports of the same document kind that run concurrently
\* leave the counter increased by exactly 2 and return two filenames with
\* different version numbers.
C26_ConcurrentExportsCountTwice ==
    BothAnswered =>
        /\ project[Counter(sessions[1].kind)] = ProjectInit[Counter(sessions[1].kind)] + 2
        /\ sessions[1].filename # sessions[2].filename

====
